---- MODULE Spec2Model ----
(***************************************************************************)
(* Model of bg-remove: the persistent image store (src/lib/database.ts)    *)
(* on top of a Dexie table with an auto-incremented primary key, and the   *)
(* crop planner of the editor (src/components/EditModal.tsx).              *)
(*                                                                         *)
(* Store operations are async functions.  Every `await` of a table request *)
(* is a point where another call may run, so saveImage and                 *)
(* cleanupOldImages are two steps each (the read, then the write).         *)
(* Spec interleaves up to MaxCalls such calls; SeqSpec runs every call to  *)
(* completion before the next operation starts.                            *)
(*                                                                         *)
(* CropSpec applies calculateCropArea to drawn inputs.  RenderSpec is one  *)
(* session of the editor: the user chooses settings, then one applyChanges *)
(* run renders and exports them.                                           *)
(*                                                                         *)
(* Time is counted in days (Date arithmetic of cleanupOldImages is in      *)
(* days).  JavaScript numbers are IEEE 754 doubles.                            *)
(***************************************************************************)
EXTENDS Integers, Sequences, FiniteSets, TLC

VARIABLES images, keyGen, now, calls, last, assigned,
          img, preset, detector, cropArea,
          bgType, customBgImage, selectedEffect, selectedPreset, pending, run, exportUrl,
          brightnessValue, pixel, data,
          showSettings, storageInfo, showClearConfirm, isClearing, handlers, alerted,
          waiting, engine,
          appImages, mounted, dateNow, editing, saves,
          showCameraPreview, facingMode, stream, cameraError, cleanupStream, requests,
          streams

storeVars == <<images, keyGen, now, calls, last, assigned>>
cropVars == <<img, preset, detector, cropArea>>
renderVars == <<bgType, customBgImage, selectedEffect, selectedPreset, pending, run, exportUrl>>
editorVars == <<cropVars, renderVars>>
effectVars == <<brightnessValue, pixel, data>>
\* the variables of the components around the store and the export pipeline
settingsVars == <<showSettings, storageInfo, showClearConfirm, isClearing, handlers, alerted>>
\* an applyChanges call that waits for an image while another one runs
editVars == <<waiting>>
\* the requests the storage engine has received from the operation in hand
engineVars == <<engine>>
\* the App: its list of images, whether the stored ones have been loaded, the
\* clock of Date.now(), the image the editor is open on and the number of
\* times its Save button was pressed
appVars == <<appImages, mounted, dateNow, editing, saves>>
\* the camera preview: isOpen, the state of the component, the stream in the
\* closure of the cleanup its effect has returned, the getUserMedia requests
\* without an answer, and every stream the device has handed out
cameraVars == <<showCameraPreview, facingMode, stream, cameraError, cleanupStream, requests,
               streams>>
uiVars == <<effectVars, settingsVars, editVars, engineVars, appVars, cameraVars>>
nonEngineVars == <<effectVars, settingsVars, editVars, appVars, cameraVars>>
vars == <<images, keyGen, now, calls, last, assigned, img, preset, detector, cropArea,
          bgType, customBgImage, selectedEffect, selectedPreset, pending, run, exportUrl,
          brightnessValue, pixel, data,
          showSettings, storageInfo, showClearConfirm, isClearing, handlers, alerted,
          waiting, engine, appImages, mounted, dateNow, editing, saves,
          showCameraPreview, facingMode, stream, cameraError, cleanupStream, requests,
          streams>>

----------------------------------------------------------------------------
(* Bounds of the model *)

\* number of records the store may ever insert
MaxAdds == 2
\* last day the clock reaches
MaxTime == 1
\* store calls that may be in flight at once
MaxCalls == 2
\* largest daysToKeep passed to cleanupOldImages
MaxDays == 1

----------------------------------------------------------------------------
(* Values *)

\* JavaScript `undefined` where a string is expected
Undefined == "undefined"
\* JavaScript `undefined` where an object is expected
UndefinedObj == [undefined |-> TRUE]

\* File objects the callers hand to the store: a name and a byte size
OriginalFiles == { [name |-> "a.jpg", size |-> 500], [name |-> "b.jpg", size |-> 200] }
ProcessedFiles == { [name |-> "a.png", size |-> 300] }
FileNames == { f.name : f \in OriginalFiles }
PresetIds == { "china-visa" }
Formats == { "jpeg" }
Ids == 1 .. (MaxAdds + 1)
CallIds == 1 .. MaxCalls

\* the argument lists the callers use: saveImage(file), saveImage(file, processed)
\* and saveImage(file, processed, preset, format)
SaveArgs ==
  { [processedFile |-> UndefinedObj, lastPreset |-> Undefined, lastFormat |-> Undefined] }
  \cup { [processedFile |-> p, lastPreset |-> Undefined, lastFormat |-> Undefined] :
            p \in ProcessedFiles }
  \cup { [processedFile |-> p, lastPreset |-> lp, lastFormat |-> lf] :
            p \in ProcessedFiles, lp \in PresetIds, lf \in Formats }

Idle == [op |-> "idle"]

\* no handler of the settings dialog is in flight
NoHandler == [name |-> "none"]
NoRequest == [op |-> "none", issued |-> 0, faulted |-> FALSE]
\* Date.now() at the first upload, in milliseconds: the auto-incremented keys
\* of the table never come near it
FirstUploadMs == 1000000
\* the rejection of a table request (quota exceeded, corruption, unavailable)
EngineFault == "DexieError"

\* the storage info the dialog starts with, and shows after a clear
NoStorage ==
  [count |-> 0, totalSize |-> 0, formattedSize |-> [hundredths |-> 0, unit |-> "Bytes"]]

----------------------------------------------------------------------------
(* The Dexie table `images`: '++id, fileName, createdAt, updatedAt' *)

KeysOf(table) == { r.id : r \in table }

\* Table.toArray(): the records in primary-key order
RECURSIVE ToArray(_)
ToArray(table) ==
  IF table = {} THEN << >>
  ELSE LET first == CHOOSE r \in table : \A o \in table : r.id <= o.id
       IN  << first >> \o ToArray(table \ { first })

\* a lookup that never matches
WhereFileNameEqualsNothing(table, name) == {}

\* db.images.where('fileName').equals(name)
WhereFileNameEquals(table, name) == { r \in table : r.fileName = name }

\* belowOrEqual in place of below
WhereUpdatedAtBelowOrEqual(table, cutoffDate) == { r \in table : r.updatedAt <= cutoffDate }

\* db.images.where('updatedAt').below(cutoffDate)
WhereUpdatedAtBelow(table, cutoffDate) == { r \in table : r.updatedAt < cutoffDate }

\* Table.get(id)
Get(table, id) ==
  IF \E r \in table : r.id = id THEN CHOOSE r \in table : r.id = id ELSE UndefinedObj

\* Table.add(obj) with the auto-incremented key
Add(table, obj, key) == table \cup { [id |-> key] @@ obj }

\* Table.update(key, changes): every property of `changes` is written to the
\* record with that key, a property whose value is undefined included (it is
\* removed from the record); no record with that key: nothing happens.
Update(table, key, changes) ==
  { IF r.id = key THEN [id |-> key] @@ changes ELSE r : r \in table }

\* a key-range delete in place of a single-key delete
DeleteUpTo(table, id) == { r \in table : r.id > id }

\* Table.delete(id)
Delete(table, id) == { r \in table : r.id # id }

\* only the first of the keys is deleted
BulkDeleteFirstOnly(table, ids) ==
  { r \in table : ids = << >> \/ r.id # ids[1] }

\* Table.bulkDelete(ids)
BulkDelete(table, ids) == { r \in table : \A i \in 1 .. Len(ids) : r.id # ids[i] }

\* Table.clear(); the key generator is not reset by it
Clear(table) == {}

\* a key computed from the records present: one more than the largest key
LargestKeyPlusOne(table, generator) ==
  IF table = {} THEN 1
  ELSE (CHOOSE k \in KeysOf(table) : \A o \in KeysOf(table) : o <= k) + 1

\* the key the '++id' generator hands to the next add
GeneratedKey(table, generator) == generator

----------------------------------------------------------------------------
(* imageStorage *)

\* what saveImage reads of the looked-up records: their id and createdAt
RECURSIVE Existing(_)
Existing(arr) ==
  IF arr = << >> THEN << >>
  ELSE << [id |-> Head(arr).id, createdAt |-> Head(arr).createdAt] >> \o Existing(Tail(arr))

\* createdAt taken from the clock on every save
ImageDataStampedNow(originalFile, processedFile, lastPreset, lastFormat, existingImages, date) ==
  [ originalFile  |-> originalFile,
    processedFile |-> processedFile,
    fileName      |-> originalFile.name,
    lastPreset    |-> lastPreset,
    lastFormat    |-> lastFormat,
    createdAt     |-> date,
    updatedAt     |-> date ]

\* the imageData object literal of saveImage
ImageData(originalFile, processedFile, lastPreset, lastFormat, existingImages, date) ==
  [ originalFile  |-> originalFile,
    processedFile |-> processedFile,
    fileName      |-> originalFile.name,
    lastPreset    |-> lastPreset,
    lastFormat    |-> lastFormat,
    createdAt     |-> IF Len(existingImages) > 0 THEN existingImages[1].createdAt ELSE date,
    updatedAt     |-> date ]

\* the loop without the processed file
RECURSIVE TotalSizeOriginalsOnly(_)
TotalSizeOriginalsOnly(arr) ==
  IF arr = << >> THEN 0
  ELSE Head(arr).originalFile.size + TotalSizeOriginalsOnly(Tail(arr))

\* the loop of getStorageSize over the array of records
RECURSIVE TotalSize(_)
TotalSize(arr) ==
  IF arr = << >> THEN 0
  ELSE Head(arr).originalFile.size
       + (IF Head(arr).processedFile # UndefinedObj THEN Head(arr).processedFile.size ELSE 0)
       + TotalSize(Tail(arr))

\* oldImages.map(img => img.id)
RECURSIVE MapId(_)
MapId(arr) == IF arr = << >> THEN << >> ELSE << Head(arr).id >> \o MapId(Tail(arr))

\* cutoffDate.setDate(cutoffDate.getDate() - daysToKeep)
CutoffDate(date, daysToKeep) == date - daysToKeep

Quiescent == \A c \in CallIds : calls[c] = Idle

\* the slot a new call runs in: 0 when MaxCalls calls are in flight
FreeCall ==
  IF \E c \in CallIds : calls[c] = Idle
  THEN CHOOSE c \in CallIds : calls[c] = Idle /\ \A o \in CallIds : calls[o] = Idle => c <= o
  ELSE 0

\* saveImage calls in flight that found no record and will insert one
PendingAdds == Cardinality({ c \in CallIds : calls[c].op = "saveImage"
                                             /\ calls[c].existingImages = << >> })

\* saveImage up to the end of its first await: `now` and the lookup by name
SaveImageLookup(c, originalFile, processedFile, lastPreset, lastFormat) ==
  /\ c \in CallIds /\ calls[c] = Idle
  /\ LET existingImages == Existing(ToArray(WhereFileNameEquals(images, originalFile.name)))
     IN  /\ existingImages = << >> => keyGen + PendingAdds <= MaxAdds
         /\ calls' = [calls EXCEPT ![c] =
                        [ op |-> "saveImage",
                          originalFile |-> originalFile,
                          processedFile |-> processedFile,
                          lastPreset |-> lastPreset,
                          lastFormat |-> lastFormat,
                          now |-> now,
                          existingImages |-> existingImages ]]
  /\ UNCHANGED <<images, keyGen, now, last, assigned>>
  /\ UNCHANGED editorVars

\* saveImage after the lookup: build imageData, update or add, return the id
SaveImageWrite(c) ==
  /\ calls[c].op = "saveImage"
  /\ LET k == calls[c]
         imageData == ImageData(k.originalFile, k.processedFile, k.lastPreset,
                                k.lastFormat, k.existingImages, k.now)
     IN  IF Len(k.existingImages) > 0
         THEN /\ images' = Update(images, k.existingImages[1].id, imageData)
              /\ last' = [op |-> "saveImage", name |-> k.originalFile.name,
                          val |-> k.existingImages[1].id]
              /\ UNCHANGED <<keyGen, assigned>>
         ELSE LET key == GeneratedKey(images, keyGen)
              IN  /\ images' = Add(images, imageData, key)
                  /\ keyGen' = key + 1
                  /\ assigned' = assigned \cup { key }
                  /\ last' = [op |-> "saveImage", name |-> k.originalFile.name,
                              val |-> key]
  /\ calls' = [calls EXCEPT ![c] = Idle]
  /\ UNCHANGED now
  /\ UNCHANGED editorVars

GetImage(id) ==
  /\ last' = [op |-> "getImage", id |-> id, val |-> Get(images, id)]
  /\ UNCHANGED <<images, keyGen, now, calls, assigned>>
  /\ UNCHANGED editorVars

DeleteImage(id) ==
  /\ images' = Delete(images, id)
  /\ last' = [op |-> "deleteImage", id |-> id]
  /\ UNCHANGED <<keyGen, now, calls, assigned>>
  /\ UNCHANGED editorVars

ClearAllImages ==
  /\ images' = Clear(images)
  /\ last' = [op |-> "clearAllImages"]
  /\ UNCHANGED <<keyGen, now, calls, assigned>>
  /\ UNCHANGED editorVars

GetStorageSize ==
  /\ last' = [op |-> "getStorageSize", val |-> TotalSize(ToArray(images))]
  /\ UNCHANGED <<images, keyGen, now, calls, assigned>>
  /\ UNCHANGED editorVars

\* formatBytes(bytes) for bytes below 1024 * 1024: the unit is Bytes below
\* 1024 and KB from there on (Math.floor(Math.log(bytes) / Math.log(1024))),
\* the number is the bytes or the KB with two decimals (toFixed(2) rounds
\* half up; bytes / 1024 is exact), given here in hundredths
formatBytes(bytes) ==
  IF bytes = 0 THEN NoStorage.formattedSize
  ELSE IF bytes < 1024 THEN [hundredths |-> 100 * bytes, unit |-> "Bytes"]
  ELSE [hundredths |-> (bytes * 100 + 512) \div 1024, unit |-> "KB"]

\* getStorageInfo up to the end of its first await: the array of the records
GetStorageInfoRead(c) ==
  /\ c \in CallIds /\ calls[c] = Idle
  /\ calls' = [calls EXCEPT ![c] = [op |-> "getStorageInfo", images |-> ToArray(images)]]
  /\ UNCHANGED <<images, keyGen, now, last, assigned>>
  /\ UNCHANGED editorVars

\* getStorageInfo after its first await: getStorageSize reads the records
\* again, and the object is returned
GetStorageInfoSize(c) ==
  /\ calls[c].op = "getStorageInfo"
  /\ LET totalSize == TotalSize(ToArray(images))
     IN  last' = [op |-> "getStorageInfo",
                  val |-> [count |-> Len(calls[c].images), totalSize |-> totalSize,
                           formattedSize |-> formatBytes(totalSize)]]
  /\ calls' = [calls EXCEPT ![c] = Idle]
  /\ UNCHANGED <<images, keyGen, now, assigned>>
  /\ UNCHANGED editorVars

\* cleanupOldImages up to the end of its first await: the cutoff and the query
CleanupQuery(c, daysToKeep) ==
  /\ c \in CallIds /\ calls[c] = Idle
  /\ LET cutoffDate == CutoffDate(now, daysToKeep)
         oldImages == ToArray(WhereUpdatedAtBelow(images, cutoffDate))
     IN  calls' = [calls EXCEPT ![c] =
                     [ op |-> "cleanupOldImages",
                       daysToKeep |-> daysToKeep,
                       idsToDelete |-> MapId(oldImages) ]]
  /\ UNCHANGED <<images, keyGen, now, last, assigned>>
  /\ UNCHANGED editorVars

\* cleanupOldImages after the query: bulkDelete and the returned count
CleanupDelete(c) ==
  /\ calls[c].op = "cleanupOldImages"
  /\ images' = BulkDelete(images, calls[c].idsToDelete)
  /\ last' = [op |-> "cleanupOldImages", daysToKeep |-> calls[c].daysToKeep,
              at |-> now, val |-> Len(calls[c].idsToDelete),
              prior |-> IF last.op = "cleanupOldImages" /\ "val" \in DOMAIN last
                        THEN [op |-> last.op, daysToKeep |-> last.daysToKeep,
                              at |-> last.at, val |-> last.val]
                        ELSE [op |-> last.op]]
  /\ calls' = [calls EXCEPT ![c] = Idle]
  /\ UNCHANGED <<keyGen, now, assigned>>
  /\ UNCHANGED editorVars

\* the clock advances by a day
Tick ==
  /\ now < MaxTime
  /\ now' = now + 1
  /\ UNCHANGED <<images, keyGen, calls, last, assigned>>
  /\ UNCHANGED editorVars

StoreInit ==
  /\ images = {}
  /\ keyGen = 1
  /\ now = 0
  /\ calls = [c \in CallIds |-> Idle]
  /\ last = [op |-> "init"]
  /\ assigned = {}

CropIdle ==
  /\ img = [width |-> 1, height |-> 1]
  /\ preset = [id |-> "none"]
  /\ detector = [kind |-> "unavailable"]
  /\ cropArea = UndefinedObj

\* JavaScript `null`
Null == [null |-> TRUE]

\* a canvas nothing was drawn on
NoCanvas == [width |-> 0, height |-> 0, drawn |-> << >>, effect |-> "none"]
\* the empty string a data URL state starts with
NoUrl == [type |-> "", quality |-> Null, length |-> 0, canvas |-> NoCanvas]

\* no applyChanges call has started
IdleRun ==
  [ pc |-> "idle", bgType |-> "color", customBgImage |-> Null, selectedEffect |-> "none",
    selectedPreset |-> "none", cropArea |-> Null, preset |-> UndefinedObj,
    canvas |-> NoCanvas, quality |-> Null, attempts |-> 0, dataUrl |-> NoUrl,
    everWithin |-> FALSE, call |-> 0 ]

\* the editor as useState initialises it
RenderIdle ==
  /\ bgType = "color"
  /\ customBgImage = Null
  /\ selectedEffect = "none"
  /\ selectedPreset = "none"
  /\ pending = {}
  /\ run = IdleRun
  /\ exportUrl = NoUrl

\* the brightness slider as useState initialises it; no pixel has been read
EffectIdle ==
  /\ brightnessValue = 50
  /\ pixel = << 0, 0, 0, 0 >>
  /\ data = Null

\* the settings dialog as useState initialises it, closed
SettingsIdle ==
  /\ showSettings = FALSE
  /\ storageInfo = NoStorage
  /\ showClearConfirm = FALSE
  /\ isClearing = FALSE
  /\ handlers = [c \in CallIds |-> NoHandler]
  /\ alerted = Null

\* no second applyChanges call
EditIdle == waiting = IdleRun

\* the engine has not been asked anything
EngineIdle == engine = NoRequest

\* the App before its mount effect has run
AppIdle ==
  /\ appImages = << >>
  /\ mounted = FALSE
  /\ dateNow = FirstUploadMs
  /\ editing = Null
  /\ saves = 0

\* the camera preview as useState initialises it, closed
CameraIdle ==
  /\ showCameraPreview = FALSE
  /\ facingMode = "user"
  /\ stream = Null
  /\ cameraError = FALSE
  /\ cleanupStream = Null
  /\ requests = 0
  /\ streams = << >>

UiIdle == EffectIdle /\ SettingsIdle /\ EditIdle /\ EngineIdle /\ AppIdle /\ CameraIdle

Init == StoreInit /\ CropIdle /\ RenderIdle /\ UiIdle

\* a call starts, or an operation that is a single table request runs
Start ==
  \/ \E f \in OriginalFiles, a \in SaveArgs :
        /\ SaveImageLookup(FreeCall, f, a.processedFile, a.lastPreset, a.lastFormat)
        /\ UNCHANGED uiVars
  \/ \E d \in 0 .. MaxDays : CleanupQuery(FreeCall, d) /\ UNCHANGED uiVars
  \/ \E id \in Ids : GetImage(id) /\ UNCHANGED uiVars
  \/ \E id \in Ids : DeleteImage(id) /\ UNCHANGED uiVars
  \/ ClearAllImages /\ UNCHANGED uiVars
  \/ GetStorageSize /\ UNCHANGED uiVars
  \/ Tick /\ UNCHANGED uiVars

\* a call in flight resumes after its await
Resume ==
  \/ \E c \in CallIds : SaveImageWrite(c) /\ UNCHANGED uiVars
  \/ \E c \in CallIds : CleanupDelete(c) /\ UNCHANGED uiVars

Next == Start \/ Resume

Spec == Init /\ [][Next]_vars

\* getStorageInfo beside the calls that write: saveImage, deleteImage and
\* clearAllImages, interleaved as in Spec
InfoNext ==
  \/ \E f \in OriginalFiles, a \in SaveArgs :
        /\ SaveImageLookup(FreeCall, f, a.processedFile, a.lastPreset, a.lastFormat)
        /\ UNCHANGED uiVars
  \/ \E c \in CallIds : SaveImageWrite(c) /\ UNCHANGED uiVars
  \/ \E id \in Ids : DeleteImage(id) /\ UNCHANGED uiVars
  \/ ClearAllImages /\ UNCHANGED uiVars
  \/ GetStorageInfoRead(FreeCall) /\ UNCHANGED uiVars
  \/ \E c \in CallIds : GetStorageInfoSize(c) /\ UNCHANGED uiVars

InfoSpec == Init /\ [][InfoNext]_vars

\* calls do not overlap: nothing starts while a call is in flight
SeqNext ==
  \/ \E f \in OriginalFiles, a \in SaveArgs :
        /\ Quiescent
        /\ SaveImageLookup(FreeCall, f, a.processedFile, a.lastPreset, a.lastFormat)
        /\ UNCHANGED uiVars
  \/ \E d \in 0 .. MaxDays : Quiescent /\ CleanupQuery(FreeCall, d) /\ UNCHANGED uiVars
  \/ \E id \in Ids : Quiescent /\ GetImage(id) /\ UNCHANGED uiVars
  \/ \E id \in Ids : Quiescent /\ DeleteImage(id) /\ UNCHANGED uiVars
  \/ Quiescent /\ ClearAllImages /\ UNCHANGED uiVars
  \/ Quiescent /\ GetStorageSize /\ UNCHANGED uiVars
  \/ Quiescent /\ Tick /\ UNCHANGED uiVars
  \/ Resume

SeqSpec == Init /\ [][SeqNext]_vars

----------------------------------------------------------------------------
(* Faults of the storage engine.  Every operation awaits its table requests *)
(* directly, with no try/catch: a request that rejects rejects the          *)
(* operation.  A request is one transaction of its own, so a rejected write *)
(* changes nothing.  `engine` counts the requests of the operation in hand. *)

Operations ==
  { "saveImage", "getImages", "getImage", "deleteImage", "clearAllImages",
    "getStorageSize", "getStorageInfo", "cleanupOldImages" }

\* getImages: every record
GetImages ==
  /\ last' = [op |-> "getImages", val |-> ToArray(images)]
  /\ UNCHANGED <<images, keyGen, now, calls, assigned>>
  /\ UNCHANGED editorVars

\* the engine receives the first request of an operation
FirstRequest(op, ok) == engine' = [op |-> op, issued |-> 1, faulted |-> ~ ok]

\* the engine receives a further request of the operation in hand
NextRequest(ok) == engine' = [engine EXCEPT !.issued = @ + 1, !.faulted = ~ ok]

\* an operation that answers a rejected request by resolving with undefined
Swallowed(op) ==
  /\ last' = [op |-> op, val |-> Undefined]
  /\ UNCHANGED <<images, keyGen, now, assigned>>
  /\ UNCHANGED editorVars

\* the awaited request rejects: the async function rejects with the same error
Rejected(op) ==
  /\ last' = [op |-> op, error |-> EngineFault]
  /\ UNCHANGED <<images, keyGen, now, assigned>>
  /\ UNCHANGED editorVars

\* the first request of an operation rejects
RequestFails(op) ==
  /\ Rejected(op)
  /\ FirstRequest(op, FALSE)
  /\ UNCHANGED calls

\* the request after the first await rejects: update or add of saveImage,
\* bulkDelete of cleanupOldImages, the toArray of getStorageSize in
\* getStorageInfo
ResumeFails(c) ==
  /\ calls[c] # Idle
  /\ Rejected(calls[c].op)
  /\ NextRequest(FALSE)
  /\ calls' = [calls EXCEPT ![c] = Idle]

\* the calls of SeqSpec and getImages and getStorageInfo, one at a time,
\* each request answered or rejected
FaultNext ==
  \/ \E f \in OriginalFiles, a \in SaveArgs :
        /\ Quiescent
        /\ SaveImageLookup(FreeCall, f, a.processedFile, a.lastPreset, a.lastFormat)
        /\ FirstRequest("saveImage", TRUE)
        /\ UNCHANGED nonEngineVars
  \/ \E c \in CallIds :
        SaveImageWrite(c) /\ NextRequest(TRUE) /\ UNCHANGED nonEngineVars
  \/ \E d \in 0 .. MaxDays :
        /\ Quiescent /\ CleanupQuery(FreeCall, d) /\ FirstRequest("cleanupOldImages", TRUE)
        /\ UNCHANGED nonEngineVars
  \/ \E c \in CallIds :
        CleanupDelete(c) /\ NextRequest(TRUE) /\ UNCHANGED nonEngineVars
  \/ /\ Quiescent /\ GetStorageInfoRead(FreeCall) /\ FirstRequest("getStorageInfo", TRUE)
     /\ UNCHANGED nonEngineVars
  \/ \E c \in CallIds :
        GetStorageInfoSize(c) /\ NextRequest(TRUE) /\ UNCHANGED nonEngineVars
  \/ /\ Quiescent /\ GetImages /\ FirstRequest("getImages", TRUE)
     /\ UNCHANGED nonEngineVars
  \/ \E id \in Ids :
        /\ Quiescent /\ GetImage(id) /\ FirstRequest("getImage", TRUE)
        /\ UNCHANGED nonEngineVars
  \/ \E id \in Ids :
        /\ Quiescent /\ DeleteImage(id) /\ FirstRequest("deleteImage", TRUE)
        /\ UNCHANGED nonEngineVars
  \/ /\ Quiescent /\ ClearAllImages /\ FirstRequest("clearAllImages", TRUE)
     /\ UNCHANGED nonEngineVars
  \/ /\ Quiescent /\ GetStorageSize /\ FirstRequest("getStorageSize", TRUE)
     /\ UNCHANGED nonEngineVars
  \/ Quiescent /\ Tick /\ UNCHANGED uiVars
  \/ \E op \in Operations :
        Quiescent /\ RequestFails(op) /\ UNCHANGED nonEngineVars
  \/ \E c \in CallIds :
        ResumeFails(c) /\ UNCHANGED nonEngineVars

FaultSpec == Init /\ [][FaultNext]_vars

----------------------------------------------------------------------------
(* JavaScript numbers: IEEE 754 binary64, round to nearest, ties to even.   *)
(* A number is [neg, m, e] with value (-1)^neg * m * 2^e, where the natural *)
(* m is zero or odd and has at most Precision bits; m is a sequence of      *)
(* limbs, least significant first.  Infinities, NaN, -0 and subnormals do   *)
(* not arise from the operands of this program and are left out.            *)

\* bits of a significand
Precision == 53
\* bits of a limb, and its radix
LimbBits == 15
Limb == 2 ^ LimbBits

Abs(i) == IF i < 0 THEN 0 - i ELSE i

RECURSIVE BTrim(_)
BTrim(a) ==
  IF a = << >> THEN a
  ELSE IF a[Len(a)] = 0 THEN BTrim(SubSeq(a, 1, Len(a) - 1)) ELSE a

RECURSIVE BOfInt(_)
BOfInt(n) == IF n = 0 THEN << >> ELSE << n % Limb >> \o BOfInt(n \div Limb)

RECURSIVE BCmpFrom(_, _, _)
BCmpFrom(a, b, i) ==
  IF i = 0 THEN 0
  ELSE IF a[i] < b[i] THEN 0 - 1
  ELSE IF a[i] > b[i] THEN 1
  ELSE BCmpFrom(a, b, i - 1)

\* -1, 0 or 1 as a < b, a = b or a > b
BCmp(a, b) ==
  IF Len(a) < Len(b) THEN 0 - 1
  ELSE IF Len(a) > Len(b) THEN 1
  ELSE BCmpFrom(a, b, Len(a))

RECURSIVE BAddC(_, _, _)
BAddC(a, b, c) ==
  IF a = << >> /\ b = << >> THEN (IF c = 0 THEN << >> ELSE << c >>)
  ELSE LET x == IF a = << >> THEN 0 ELSE Head(a)
           y == IF b = << >> THEN 0 ELSE Head(b)
           s == x + y + c
       IN  << s % Limb >> \o BAddC(IF a = << >> THEN a ELSE Tail(a),
                                   IF b = << >> THEN b ELSE Tail(b), s \div Limb)

BAdd(a, b) == BAddC(a, b, 0)

RECURSIVE BSubC(_, _, _)
BSubC(a, b, c) ==
  IF a = << >> THEN << >>
  ELSE LET y == IF b = << >> THEN 0 ELSE Head(b)
           d == Head(a) - y - c
       IN  << IF d < 0 THEN d + Limb ELSE d >>
             \o BSubC(Tail(a), IF b = << >> THEN b ELSE Tail(b), IF d < 0 THEN 1 ELSE 0)

\* a - b for a >= b
BSub(a, b) == BTrim(BSubC(a, b, 0))

RECURSIVE BMulS(_, _, _)
\* a * k + c for 0 <= k <= Limb
BMulS(a, k, c) ==
  IF a = << >> THEN (IF c = 0 THEN << >> ELSE << c >>)
  ELSE LET p == Head(a) * k + c
       IN  << p % Limb >> \o BMulS(Tail(a), k, p \div Limb)

RECURSIVE BMulU(_, _)
BMulU(a, b) ==
  IF b = << >> THEN << >>
  ELSE BAdd(BMulS(a, Head(b), 0), << 0 >> \o BMulU(a, Tail(b)))

BMul(a, b) == BTrim(BMulU(a, b))

RECURSIVE BDivS(_, _)
\* quotient and remainder of a by 0 < d <= Limb
BDivS(a, d) ==
  IF a = << >> THEN [q |-> << >>, r |-> 0]
  ELSE LET t == BDivS(Tail(a), d)
           cur == t.r * Limb + Head(a)
       IN  [q |-> << cur \div d >> \o t.q, r |-> cur % d]

BShl(a, k) ==
  IF a = << >> THEN a
  ELSE [i \in 1 .. (k \div LimbBits) |-> 0] \o BMulS(a, 2 ^ (k % LimbBits), 0)

BShr(a, k) ==
  IF k \div LimbBits >= Len(a) THEN << >>
  ELSE BTrim(BDivS(SubSeq(a, (k \div LimbBits) + 1, Len(a)), 2 ^ (k % LimbBits)).q)

RECURSIVE BitLen(_)
BitLen(x) == IF x = 0 THEN 0 ELSE 1 + BitLen(x \div 2)

BBitLen(a) == IF a = << >> THEN 0 ELSE LimbBits * (Len(a) - 1) + BitLen(a[Len(a)])

RECURSIVE TrailingZeros(_)
TrailingZeros(x) == IF x % 2 = 1 THEN 0 ELSE 1 + TrailingZeros(x \div 2)

RECURSIVE BTrailingZeros(_)
BTrailingZeros(a) ==
  IF Head(a) = 0 THEN LimbBits + BTrailingZeros(Tail(a)) ELSE TrailingZeros(Head(a))

RECURSIVE BDivLimb(_, _, _, _)
\* long division by d of the remainder r followed by the j highest bits of
\* the limb x: the j quotient bits and the new remainder
BDivLimb(r, d, x, j) ==
  IF j = 0 THEN [q |-> 0, r |-> r]
  ELSE LET t == BDivLimb(r, d, x, j - 1)
           r2 == BMulS(t.r, 2, (x \div (2 ^ (LimbBits - j))) % 2)
       IN  IF BCmp(r2, d) >= 0
           THEN [q |-> 2 * t.q + 1, r |-> BSub(r2, d)]
           ELSE [q |-> 2 * t.q, r |-> r2]

RECURSIVE BDivL(_, _)
BDivL(n, d) ==
  IF n = << >> THEN [q |-> << >>, r |-> << >>]
  ELSE LET t == BDivL(Tail(n), d)
           u == BDivLimb(t.r, d, Head(n), LimbBits)
       IN  IF t.r = << >> /\ Head(n) = 0
           THEN [q |-> << 0 >> \o t.q, r |-> << >>]
           ELSE [q |-> << u.q >> \o t.q, r |-> u.r]

\* quotient and remainder (as naturals) of n by d # 0
BDiv(n, d) ==
  IF Len(d) = 1
  THEN LET t == BDivS(n, d[1]) IN [q |-> BTrim(t.q), r |-> BOfInt(t.r)]
  ELSE LET t == BDivL(n, d) IN [q |-> BTrim(t.q), r |-> t.r]

Zero == [neg |-> FALSE, m |-> << >>, e |-> 0]

\* the number m * 2^e of at most Precision bits, with m made odd
Canonical(neg, m, e) ==
  IF m = << >> THEN Zero
  ELSE LET z == BTrailingZeros(m) IN [neg |-> neg, m |-> BShr(m, z), e |-> e + z]

\* m * 2^e rounded to Precision bits, to nearest, ties to even
Round(neg, m, e) ==
  LET len == BBitLen(m)
  IN  IF len <= Precision THEN Canonical(neg, m, e)
      ELSE LET s == len - Precision
               q == BShr(m, s)
               rest == BSub(m, BShl(q, s))
               c == BCmp(rest, BShl(<< 1 >>, s - 1))
               up == c > 0 \/ (c = 0 /\ q[1] % 2 = 1)
           IN  Canonical(neg, IF up THEN BAdd(q, << 1 >>) ELSE q, e + s)

Num(i) == Canonical(i < 0, BOfInt(Abs(i)), 0)

Negate(a) == IF a = Zero THEN a ELSE [a EXCEPT !.neg = ~ a.neg]

\* a + b
Plus(a, b) ==
  LET e0 == IF a.e < b.e THEN a.e ELSE b.e
      ma == BShl(a.m, a.e - e0)
      mb == BShl(b.m, b.e - e0)
      c == BCmp(ma, mb)
  IN  IF a.neg = b.neg THEN Round(a.neg, BAdd(ma, mb), e0)
      ELSE IF c = 0 THEN Zero
      ELSE IF c > 0 THEN Round(a.neg, BSub(ma, mb), e0)
      ELSE Round(b.neg, BSub(mb, ma), e0)

\* a - b
Minus(a, b) == Plus(a, Negate(b))

\* a * b
Times(a, b) == Round(a.neg # b.neg, BMul(a.m, b.m), a.e + b.e)

\* a / b for b # 0: the quotient to Precision + 3 bits or more, and one more
\* bit that says whether a remainder was left
Over(a, b) ==
  IF a = Zero THEN Zero
  ELSE LET k == Precision + 3 + BBitLen(b.m)
           t == BDiv(BShl(a.m, k), b.m)
       IN  Round(a.neg # b.neg, BMulS(t.q, 2, IF t.r = << >> THEN 0 ELSE 1), a.e - b.e - k - 1)

\* the number a decimal literal n/d denotes
Literal(n, d) == Over(Num(n), Num(d))

Less(a, b) == Minus(a, b).neg
LessEq(a, b) == ~ Less(b, a)
MathMax(a, b) == IF Less(a, b) THEN b ELSE a
MathMin(a, b) == IF Less(b, a) THEN b ELSE a

----------------------------------------------------------------------------
(* EditModal: presets and the crop planner *)

NotPlanned == [planned |-> FALSE]

\* maxFileSize is in KB; 0 stands for a preset without one (`if
\* (preset.maxFileSize)` is false for both)
photoPresets ==
  << [id |-> "none", width |-> 0, height |-> 0,
      minHeadWidth |-> 0, maxHeadWidth |-> 0, format |-> "png", maxFileSize |-> 0],
     [id |-> "china-visa", width |-> 420, height |-> 560,
      minHeadWidth |-> 191, maxHeadWidth |-> 251, format |-> "jpeg", maxFileSize |-> 120],
     [id |-> "us-passport", width |-> 600, height |-> 600,
      minHeadWidth |-> 330, maxHeadWidth |-> 420, format |-> "jpeg", maxFileSize |-> 240],
     [id |-> "linkedin", width |-> 400, height |-> 400,
      minHeadWidth |-> 200, maxHeadWidth |-> 320, format |-> "jpeg", maxFileSize |-> 0] >>

Presets == { photoPresets[i] : i \in 1 .. Len(photoPresets) }

\* an empty bounding box at the origin when detection yields nothing
detectFaceEmptyBox(det) ==
  IF det.kind = "face" THEN det.box ELSE [x |-> 0, y |-> 0, width |-> 0, height |-> 0]

\* detectFace: the first bounding box the FaceDetector reports; null when the
\* detector is missing, throws, or reports no face
detectFace(det) ==
  IF det.kind = "face" THEN det.box ELSE Null

\* cropX without centring when there is no face
CropXLeftAligned(image, cropWidth, face) ==
  IF face # Null
  THEN LET faceCenterX == Plus(Num(face.x), Over(Num(face.width), Num(2)))
       IN  MathMax(Num(0), MathMin(Minus(Num(image.width), cropWidth),
                                   Minus(faceCenterX, Over(cropWidth, Num(2)))))
  ELSE Num(0)

\* cropX of the wider-image branch
CropX(image, cropWidth, face) ==
  IF face # Null
  THEN LET faceCenterX == Plus(Num(face.x), Over(Num(face.width), Num(2)))
       IN  MathMax(Num(0), MathMin(Minus(Num(image.width), cropWidth),
                                   Minus(faceCenterX, Over(cropWidth, Num(2)))))
  ELSE Over(Minus(Num(image.width), cropWidth), Num(2))

\* cropY without the clamp to the image
CropYUnclamped(image, cropHeight, face) ==
  IF face # Null
  THEN LET faceCenterY == Plus(Num(face.y), Over(Num(face.height), Num(2)))
           idealFacePosition == Times(cropHeight, Literal(4, 10))
       IN  Minus(faceCenterY, idealFacePosition)
  ELSE Over(Minus(Num(image.height), cropHeight), Num(2))

\* cropY with the face at the middle of the crop
CropYFaceCentred(image, cropHeight, face) ==
  IF face # Null
  THEN LET faceCenterY == Plus(Num(face.y), Over(Num(face.height), Num(2)))
           idealFacePosition == Times(cropHeight, Literal(5, 10))
       IN  MathMax(Num(0), MathMin(Minus(Num(image.height), cropHeight),
                                   Minus(faceCenterY, idealFacePosition)))
  ELSE Over(Minus(Num(image.height), cropHeight), Num(2))

\* cropY of the taller-image branch
CropY(image, cropHeight, face) ==
  IF face # Null
  THEN LET faceCenterY == Plus(Num(face.y), Over(Num(face.height), Num(2)))
           idealFacePosition == Times(cropHeight, Literal(4, 10))
       IN  MathMax(Num(0), MathMin(Minus(Num(image.height), cropHeight),
                                   Minus(faceCenterY, idealFacePosition)))
  ELSE Over(Minus(Num(image.height), cropHeight), Num(2))

\* the taller branch multiplying by the ratio instead of dividing
calculateCropAreaTimesRatio(image, p, det) ==
  IF p.id = "none" THEN Null
  ELSE LET aspectRatio == Over(Num(p.width), Num(p.height))
           imgAspectRatio == Over(Num(image.width), Num(image.height))
           face == detectFace(det)
       IN  IF Less(aspectRatio, imgAspectRatio)
           THEN LET cropHeight == Num(image.height)
                    cropWidth == Times(cropHeight, aspectRatio)
                IN  [ x |-> CropX(image, cropWidth, face), y |-> Num(0),
                      width |-> cropWidth, height |-> cropHeight ]
           ELSE LET cropWidth == Num(image.width)
                    cropHeight == Times(cropWidth, aspectRatio)
                IN  [ x |-> Num(0), y |-> CropY(image, cropHeight, face),
                      width |-> cropWidth, height |-> cropHeight ]

\* calculateCropArea: null for 'none', else the crop rectangle
calculateCropArea(image, p, det) ==
  IF p.id = "none" THEN Null
  ELSE LET aspectRatio == Over(Num(p.width), Num(p.height))
           imgAspectRatio == Over(Num(image.width), Num(image.height))
           face == detectFace(det)
       IN  IF Less(aspectRatio, imgAspectRatio)
           THEN LET cropHeight == Num(image.height)
                    cropWidth == Times(cropHeight, aspectRatio)
                IN  [ x |-> CropX(image, cropWidth, face), y |-> Num(0),
                      width |-> cropWidth, height |-> cropHeight ]
           ELSE LET cropWidth == Num(image.width)
                    cropHeight == Over(cropWidth, aspectRatio)
                IN  [ x |-> Num(0), y |-> CropY(image, cropHeight, face),
                      width |-> cropWidth, height |-> cropHeight ]

\* largest side of the small source images; 7 (whose quotient by 3/4 is
\* rounded up), 500 and 1000 are drawn as well
MaxDim == 4
Dims == (1 .. MaxDim) \cup { 7, 500, 1000 }
\* bounding boxes a detector may report, inside and outside the image
FacePos == { 0 - 2, 0, 1, 3, 400, 1200 }
FaceSize == { 2, 100 }
Detectors ==
  { [kind |-> "unavailable"], [kind |-> "throws"], [kind |-> "noface"] }
  \cup { [kind |-> "face", box |-> [x |-> x, y |-> y, width |-> w, height |-> h]] :
           x \in FacePos, y \in FacePos, w \in FaceSize, h \in FaceSize }

\* handlePresetChange on a loaded image: the crop area for the selected preset
PlanCrop ==
  /\ cropArea = NotPlanned
  /\ cropArea' = calculateCropArea(img, preset, detector)
  /\ UNCHANGED <<img, preset, detector>>
  /\ UNCHANGED renderVars
  /\ UNCHANGED storeVars

CropInit ==
  /\ img \in [width : Dims, height : Dims]
  /\ preset \in Presets
  /\ detector \in Detectors
  /\ cropArea = NotPlanned

CropSpecInit == StoreInit /\ CropInit /\ RenderIdle /\ UiIdle

CropSpec == CropSpecInit /\ [][PlanCrop /\ UNCHANGED uiVars]_vars

----------------------------------------------------------------------------
(* EditModal: the settings, applyChanges and the export *)

backgroundOptions == << "color", "image" >>
effectOptions == << "none", "blur", "brightness", "contrast" >>

\* files the background input may hold; decodes tells whether an Image
\* element given the file fires onload
BackgroundFiles ==
  { [name |-> "bg.png", decodes |-> TRUE], [name |-> "broken.png", decodes |-> FALSE] }

\* an id no preset has (handlePresetChange takes any string)
UnknownPresetId == "custom"
RequestedPresetIds == { p.id : p \in Presets } \cup { UnknownPresetId }

\* handlePresetChange calls that may wait for the image at once
MaxPending == 1

\* lengths of the data URLs the encoder may return: at the budget of 120 KB
\* (163840 * 0.75 = 120 * 1024), one character above it, and above 240 KB
Lengths == { 163840, 163841, 400000 }

\* photoPresets.find(p => p.id === presetId) answering every id with the
\* first preset
FindFirstPreset(presetId) == photoPresets[2]

\* photoPresets.find(p => p.id === presetId)
Find(presetId) ==
  IF \E p \in Presets : p.id = presetId
  THEN CHOOSE p \in Presets : p.id = presetId
  ELSE UndefinedObj

\* preset && preset.id !== 'none' && cropArea
UseCrop(p, crop) == p # UndefinedObj /\ p.id # "none" /\ crop # Null

\* the canvas with the source's size whatever the preset
CanvasSizeOfSource(p, crop, image) == [width |-> image.width, height |-> image.height]

\* canvas.width and canvas.height
CanvasSize(p, crop, image) ==
  IF UseCrop(p, crop)
  THEN [width |-> p.width, height |-> p.height]
  ELSE [width |-> image.width, height |-> image.height]

\* the rectangle (0, 0, canvas.width, canvas.height)
WholeCanvas(c) == [x |-> 0, y |-> 0, width |-> c.width, height |-> c.height]

\* one drawing call: what is drawn, the part of it that is taken (Null for
\* all of it) and the rectangle of the canvas it is drawn to
Drawing(what, from, to) == [what |-> what, from |-> from, to |-> to]

\* the background step drawing nothing for a color
BackgroundNever(c, type) == << >>

\* the background drawn without waiting: fillRect for a color
Background(c, type) ==
  IF type = "color" THEN << Drawing("fillRect", Null, WholeCanvas(c)) >> ELSE << >>

\* the subject drawn whole at its own size whatever the crop
SubjectUncropped(c, p, crop, image) ==
  Drawing("img", Null, [x |-> 0, y |-> 0, width |-> image.width, height |-> image.height])

\* ctx.drawImage of the processed image
Subject(c, p, crop, image) ==
  IF UseCrop(p, crop)
  THEN Drawing("img", crop, WholeCanvas(c))
  ELSE Drawing("img", Null, [x |-> 0, y |-> 0, width |-> image.width, height |-> image.height])

\* canvas.toDataURL(type, quality) returning length characters
toDataURL(c, type, quality, length) ==
  [type |-> type, quality |-> quality, length |-> length, canvas |-> c]

\* the quality of the first JPEG encoding, 0.9
InitialQuality == Literal(9, 10)
\* what the loop takes off the quality at each turn, and the quality it
\* must stay above, 0.1
QualityStep == Literal(1, 10)
QualityFloor == Literal(1, 10)
\* bytes per character of a data URL, 0.75
BytesPerCharacter == Literal(75, 100)

\* preset.maxFileSize * 1024
TargetSize(p) == Num(p.maxFileSize * 1024)

\* dataUrl.length * 0.75 > targetSize
OverBudget(url, p) == Less(TargetSize(p), Times(Num(url.length), BytesPerCharacter))

\* the loop condition without its quality guard
SearchContinuesToBound(r) ==
  /\ OverBudget(r.dataUrl, r.preset)
  /\ r.attempts < 10

\* the loop condition: over budget && quality > 0.1 && attempts < 10
SearchContinues(r) ==
  /\ OverBudget(r.dataUrl, r.preset)
  /\ Less(QualityFloor, r.quality)
  /\ r.attempts < 10

\* applyChanges is between two awaits: nothing else runs
Synchronous == run.pc \in { "compose", "encode", "search", "publish" }

\* a click on a background option
SetBgType(type) ==
  /\ run.pc = "idle"
  /\ bgType' = type
  /\ UNCHANGED <<customBgImage, selectedEffect, selectedPreset, pending, run, exportUrl>>
  /\ UNCHANGED <<cropVars, storeVars>>

\* the file input, shown while bgType is 'image': a file, or none
SetCustomBgImage(file) ==
  /\ run.pc = "idle"
  /\ bgType = "image"
  /\ customBgImage' = file
  /\ UNCHANGED <<bgType, selectedEffect, selectedPreset, pending, run, exportUrl>>
  /\ UNCHANGED <<cropVars, storeVars>>

\* a click on an effect option
SetSelectedEffect(effect) ==
  /\ run.pc = "idle"
  /\ selectedEffect' = effect
  /\ UNCHANGED <<bgType, customBgImage, selectedPreset, pending, run, exportUrl>>
  /\ UNCHANGED <<cropVars, storeVars>>

\* handlePresetChange up to its await: the preset is selected; the crop area
\* is reset at once for 'none' and for an id without a preset
HandlePresetChange(presetId) ==
  /\ run.pc = "idle"
  /\ selectedPreset' = presetId
  /\ LET p == Find(presetId)
     IN  IF p # UndefinedObj /\ p.id # "none"
         THEN /\ Cardinality(pending) < MaxPending
              /\ pending' = pending \cup { p }
              /\ UNCHANGED cropArea
         ELSE /\ cropArea' = Null
              /\ UNCHANGED pending
  /\ UNCHANGED <<bgType, customBgImage, selectedEffect, run, exportUrl>>
  /\ UNCHANGED <<img, preset, detector>>
  /\ UNCHANGED storeVars

\* handlePresetChange after the image has loaded: the crop area of its preset
SetCropArea(p) ==
  /\ p \in pending
  /\ ~ Synchronous
  /\ cropArea' = calculateCropArea(img, p, detector)
  /\ pending' = pending \ { p }
  /\ UNCHANGED <<bgType, customBgImage, selectedEffect, selectedPreset, run, exportUrl>>
  /\ UNCHANGED <<img, preset, detector>>
  /\ UNCHANGED storeVars

\* applyChanges up to the load of the processed image; the call keeps the
\* settings of the render that created it
StartApplyChanges ==
  /\ run.pc = "idle"
  /\ run' = [ IdleRun EXCEPT !.pc = "loadImage", !.bgType = bgType,
                !.customBgImage = customBgImage, !.selectedEffect = selectedEffect,
                !.selectedPreset = selectedPreset, !.cropArea = cropArea,
                !.call = 1 ]
  /\ UNCHANGED <<bgType, customBgImage, selectedEffect, selectedPreset, pending, exportUrl>>
  /\ UNCHANGED <<cropVars, storeVars>>

\* the processed image has loaded: the canvas is sized and the background
\* step runs, up to the load of the background image when there is one
AfterImageLoaded(r) ==
  LET p == Find(r.selectedPreset)
      size == CanvasSize(p, r.cropArea, img)
      c == [width |-> size.width, height |-> size.height,
            drawn |-> Background(size, r.bgType), effect |-> "none"]
  IN  [ r EXCEPT !.preset = p, !.canvas = c,
          !.pc = IF r.bgType = "image" /\ r.customBgImage # Null
                 THEN "loadBackground" ELSE "compose" ]

ImageLoaded ==
  /\ run.pc = "loadImage"
  /\ run' = AfterImageLoaded(run)
  /\ UNCHANGED <<bgType, customBgImage, selectedEffect, selectedPreset, pending, exportUrl>>
  /\ UNCHANGED <<cropVars, storeVars>>

\* bgImg.onload fires: the background image is stretched over the canvas.
\* There is no onerror: for a file that does not decode the promise never
\* settles and the call stays here.
AfterBackgroundLoaded(r) ==
  [ r EXCEPT !.pc = "compose",
      !.canvas.drawn = Append(@, Drawing("bgImg", Null, WholeCanvas(r.canvas))) ]

BackgroundLoaded ==
  /\ run.pc = "loadBackground"
  /\ run.customBgImage.decodes
  /\ run' = AfterBackgroundLoaded(run)
  /\ UNCHANGED <<bgType, customBgImage, selectedEffect, selectedPreset, pending, exportUrl>>
  /\ UNCHANGED <<cropVars, storeVars>>

\* the processed image is drawn, then the selected effect is applied
DrawSubject ==
  /\ run.pc = "compose"
  /\ run' = [ run EXCEPT !.pc = "encode",
                !.canvas.drawn = Append(@, Subject(run.canvas, run.preset, run.cropArea, img)),
                !.canvas.effect = run.selectedEffect ]
  /\ UNCHANGED <<bgType, customBgImage, selectedEffect, selectedPreset, pending, exportUrl>>
  /\ UNCHANGED <<cropVars, storeVars>>

\* the first encoding: JPEG at quality 0.9 for a preset of format jpeg, else PNG
Encode(length) ==
  /\ run.pc = "encode"
  /\ IF run.preset # UndefinedObj /\ run.preset.format = "jpeg"
     THEN LET url == toDataURL(run.canvas, "image/jpeg", InitialQuality, length)
          IN  run' = [ run EXCEPT !.quality = InitialQuality, !.dataUrl = url,
                         !.everWithin = ~ OverBudget(url, run.preset),
                         !.pc = IF run.preset.maxFileSize # 0 THEN "search" ELSE "publish" ]
     ELSE run' = [ run EXCEPT !.dataUrl = toDataURL(run.canvas, "image/png", Null, length),
                     !.pc = "publish" ]
  /\ UNCHANGED <<bgType, customBgImage, selectedEffect, selectedPreset, pending, exportUrl>>
  /\ UNCHANGED <<cropVars, storeVars>>

\* one turn of the quality loop
Reencode(length) ==
  /\ run.pc = "search"
  /\ SearchContinues(run)
  /\ LET quality == Minus(run.quality, QualityStep)
         url == toDataURL(run.canvas, "image/jpeg", quality, length)
     IN  run' = [ run EXCEPT !.quality = quality, !.dataUrl = url,
                    !.attempts = @ + 1,
                    !.everWithin = @ \/ ~ OverBudget(url, run.preset) ]
  /\ UNCHANGED <<bgType, customBgImage, selectedEffect, selectedPreset, pending, exportUrl>>
  /\ UNCHANGED <<cropVars, storeVars>>

\* the loop, if any, is over: setExportUrl(dataUrl)
SetExportUrl ==
  /\ \/ run.pc = "publish"
     \/ run.pc = "search" /\ ~ SearchContinues(run)
  /\ exportUrl' = run.dataUrl
  /\ run' = [run EXCEPT !.pc = "done"]
  /\ UNCHANGED <<bgType, customBgImage, selectedEffect, selectedPreset, pending>>
  /\ UNCHANGED <<cropVars, storeVars>>

\* processed images the editor is opened on: one relatively taller and one
\* relatively wider than every preset
RenderImages == { [width |-> 3, height |-> 7], [width |-> 7, height |-> 3] }

RenderInit ==
  /\ img \in RenderImages
  /\ preset = [id |-> "none"]
  /\ detector = [kind |-> "noface"]
  /\ cropArea = Null

RenderSpecInit == StoreInit /\ RenderInit /\ RenderIdle /\ UiIdle

RenderNext ==
  \/ \E i \in 1 .. Len(backgroundOptions) : SetBgType(backgroundOptions[i]) /\ UNCHANGED uiVars
  \/ \E file \in BackgroundFiles \cup { Null } : SetCustomBgImage(file) /\ UNCHANGED uiVars
  \/ \E i \in 1 .. Len(effectOptions) : SetSelectedEffect(effectOptions[i]) /\ UNCHANGED uiVars
  \/ \E presetId \in RequestedPresetIds : HandlePresetChange(presetId) /\ UNCHANGED uiVars
  \/ \E p \in pending : SetCropArea(p) /\ UNCHANGED uiVars
  \/ StartApplyChanges /\ UNCHANGED uiVars
  \/ ImageLoaded /\ UNCHANGED uiVars
  \/ BackgroundLoaded /\ UNCHANGED uiVars
  \/ DrawSubject /\ UNCHANGED uiVars
  \/ \E length \in Lengths : Encode(length) /\ UNCHANGED uiVars
  \/ \E length \in Lengths : Reencode(length) /\ UNCHANGED uiVars
  \/ SetExportUrl /\ UNCHANGED uiVars

RenderSpec == RenderSpecInit /\ [][RenderNext]_vars

----------------------------------------------------------------------------
(* EditModal: a setting changes while applyChanges waits for an image.  The *)
(* effect that depends on the settings starts another call; nothing cancels *)
(* or orders the calls.  `run` is the call that runs or has run last,       *)
(* `waiting` the other one; a load event of the other call makes it `run`.  *)

\* the places where applyChanges awaits
Awaiting(r) == r.pc \in { "loadImage", "loadBackground" }

\* applyChanges as the effect calls it after the render with the new settings
Restarted(type, effect) ==
  [ IdleRun EXCEPT !.pc = "loadImage", !.bgType = type,
      !.customBgImage = customBgImage, !.selectedEffect = effect,
      !.selectedPreset = selectedPreset, !.cropArea = cropArea,
      !.call = run.call + 1 ]

\* a click on another background option during a call
ChangeBgType(type) ==
  /\ Awaiting(run) /\ waiting.pc = "idle"
  /\ type # bgType
  /\ bgType' = type
  /\ waiting' = run
  /\ run' = Restarted(type, selectedEffect)
  /\ UNCHANGED <<customBgImage, selectedEffect, selectedPreset, pending, exportUrl>>
  /\ UNCHANGED <<cropVars, storeVars, effectVars, settingsVars, engineVars, appVars, cameraVars>>

\* a click on another effect option during a call
ChangeSelectedEffect(effect) ==
  /\ Awaiting(run) /\ waiting.pc = "idle"
  /\ effect # selectedEffect
  /\ selectedEffect' = effect
  /\ waiting' = run
  /\ run' = Restarted(bgType, effect)
  /\ UNCHANGED <<bgType, customBgImage, selectedPreset, pending, exportUrl>>
  /\ UNCHANGED <<cropVars, storeVars, effectVars, settingsVars, engineVars, appVars, cameraVars>>

\* img.onload of the other call fires while this one waits or is over
OtherImageLoaded ==
  /\ waiting.pc = "loadImage"
  /\ Awaiting(run) \/ run.pc = "done"
  /\ run' = AfterImageLoaded(waiting)
  /\ waiting' = run
  /\ UNCHANGED <<bgType, customBgImage, selectedEffect, selectedPreset, pending, exportUrl>>
  /\ UNCHANGED <<cropVars, storeVars, effectVars, settingsVars, engineVars, appVars, cameraVars>>

\* bgImg.onload of the other call fires while this one waits or is over
OtherBackgroundLoaded ==
  /\ waiting.pc = "loadBackground"
  /\ waiting.customBgImage.decodes
  /\ Awaiting(run) \/ run.pc = "done"
  /\ run' = AfterBackgroundLoaded(waiting)
  /\ waiting' = run
  /\ UNCHANGED <<bgType, customBgImage, selectedEffect, selectedPreset, pending, exportUrl>>
  /\ UNCHANGED <<cropVars, storeVars, effectVars, settingsVars, engineVars, appVars, cameraVars>>

\* a session in which the preset stays 'none'
EditNext ==
  \/ \E i \in 1 .. Len(backgroundOptions) : SetBgType(backgroundOptions[i]) /\ UNCHANGED uiVars
  \/ \E file \in BackgroundFiles \cup { Null } : SetCustomBgImage(file) /\ UNCHANGED uiVars
  \/ \E i \in 1 .. Len(effectOptions) : SetSelectedEffect(effectOptions[i]) /\ UNCHANGED uiVars
  \/ StartApplyChanges /\ UNCHANGED uiVars
  \/ ImageLoaded /\ UNCHANGED uiVars
  \/ BackgroundLoaded /\ UNCHANGED uiVars
  \/ DrawSubject /\ UNCHANGED uiVars
  \/ \E length \in Lengths : Encode(length) /\ UNCHANGED uiVars
  \/ SetExportUrl /\ UNCHANGED uiVars
  \/ \E i \in 1 .. Len(backgroundOptions) : ChangeBgType(backgroundOptions[i])
  \/ \E i \in 1 .. Len(effectOptions) : ChangeSelectedEffect(effectOptions[i])
  \/ OtherImageLoaded
  \/ OtherBackgroundLoaded

EditSpec == RenderSpecInit /\ [][EditNext]_vars

----------------------------------------------------------------------------
(* EditModal: the brightness effect on the pixels of the canvas *)

\* largest value of a channel of a pixel
MaxChannel == 255
\* the range of the intensity slider
MinIntensity == 0
MaxIntensity == 100

\* the natural number a sequence of limbs below Limb denotes
BToInt(a) == IF a = << >> THEN 0 ELSE a[1]

\* the store of a number into a Uint8ClampedArray: the nearest integer, ties
\* to even, limited to 0 .. 255
ToUint8Clamp(x) ==
  IF x.neg \/ x = Zero THEN 0
  ELSE IF Less(Num(MaxChannel), x) THEN MaxChannel
  ELSE IF x.e >= 0 THEN BToInt(BShl(x.m, x.e))
  ELSE LET s == 0 - x.e
           q == BShr(x.m, s)
           rest == BSub(x.m, BShl(q, s))
           c == BCmp(rest, BShl(<< 1 >>, s - 1))
           floor == BToInt(q)
       IN  IF c > 0 \/ (c = 0 /\ floor % 2 = 1) THEN floor + 1 ELSE floor

\* the scaling by value / 100 in place of value / 50
BrightnessPerHundred(p, value) ==
  << ToUint8Clamp(MathMin(Num(MaxChannel), Times(Num(p[1]), Over(Num(value), Num(100))))),
     ToUint8Clamp(MathMin(Num(MaxChannel), Times(Num(p[2]), Over(Num(value), Num(100))))),
     ToUint8Clamp(MathMin(Num(MaxChannel), Times(Num(p[3]), Over(Num(value), Num(100))))),
     p[4] >>

\* one turn of the brightness loop: data[i], data[i + 1] and data[i + 2] of
\* the pixel << R, G, B, A >> are written, data[i + 3] is not
Brightness(p, value) ==
  << ToUint8Clamp(MathMin(Num(MaxChannel), Times(Num(p[1]), Over(Num(value), Num(50))))),
     ToUint8Clamp(MathMin(Num(MaxChannel), Times(Num(p[2]), Over(Num(value), Num(50))))),
     ToUint8Clamp(MathMin(Num(MaxChannel), Times(Num(p[3]), Over(Num(value), Num(50))))),
     p[4] >>

\* the pixels the effect is applied to: every value of each colour channel,
\* beside sample values of the other channels, transparent and opaque
SampleChannel == 200
Alphas == { 0, MaxChannel }
Pixels ==
  { << c, SampleChannel, SampleChannel, a >> : c \in 0 .. MaxChannel, a \in Alphas }
  \cup { << SampleChannel, c, SampleChannel, a >> : c \in 0 .. MaxChannel, a \in Alphas }
  \cup { << SampleChannel, SampleChannel, c, a >> : c \in 0 .. MaxChannel, a \in Alphas }

\* positions of the slider that are drawn
Intensities == { MinIntensity, 1, 25, 50, 75, 99, MaxIntensity }

\* the brightness case of applyChanges on one pixel of getImageData
ApplyBrightness ==
  /\ data = Null
  /\ data' = Brightness(pixel, brightnessValue)
  /\ UNCHANGED <<brightnessValue, pixel>>
  /\ UNCHANGED <<storeVars, cropVars, renderVars, settingsVars, editVars, engineVars>>
  /\ UNCHANGED <<appVars, cameraVars>>

EffectInit ==
  /\ brightnessValue \in Intensities
  /\ pixel \in Pixels
  /\ data = Null

EffectSpecInit ==
  /\ StoreInit /\ CropIdle /\ RenderIdle /\ EffectInit
  /\ SettingsIdle /\ EditIdle /\ EngineIdle /\ AppIdle /\ CameraIdle

EffectSpec == EffectSpecInit /\ [][ApplyBrightness]_vars

----------------------------------------------------------------------------
(* SettingsModal: the storage info, the cleanup and the clear of the cache.  *)
(* A handler that waits for a store call is kept in the slot of that call.   *)

\* the daysToKeep the dialog passes to cleanupOldImages
RetentionDays == 30

\* the slot a new handler runs in: 0 when every slot is taken
FreeSlot ==
  IF \E c \in CallIds : calls[c] = Idle /\ handlers[c] = NoHandler
  THEN CHOOSE c \in CallIds :
         /\ calls[c] = Idle /\ handlers[c] = NoHandler
         /\ \A o \in CallIds : (calls[o] = Idle /\ handlers[o] = NoHandler) => c <= o
  ELSE 0

\* the settings button of the app: the dialog opens and its effect starts
\* loadStorageInfo, up to the end of the first read of getStorageInfo
OpenSettings(c) ==
  /\ ~ showSettings
  /\ c = FreeSlot
  /\ GetStorageInfoRead(c)
  /\ showSettings' = TRUE
  /\ handlers' = [handlers EXCEPT ![c] = [name |-> "loadStorageInfo"]]
  /\ UNCHANGED <<storageInfo, showClearConfirm, isClearing, alerted>>
  /\ UNCHANGED <<effectVars, editVars, engineVars, appVars, cameraVars>>

\* loadStorageInfo after getStorageInfo has returned: setStorageInfo(info)
LoadStorageInfo(c) ==
  /\ handlers[c] = [name |-> "loadStorageInfo"]
  /\ GetStorageInfoSize(c)
  /\ storageInfo' = last'.val
  /\ handlers' = [handlers EXCEPT ![c] = NoHandler]
  /\ UNCHANGED <<showSettings, showClearConfirm, isClearing, alerted>>
  /\ UNCHANGED <<effectVars, editVars, engineVars, appVars, cameraVars>>

\* the close button, which the confirmation covers while it is shown
CloseSettings ==
  /\ showSettings /\ ~ showClearConfirm
  /\ showSettings' = FALSE
  /\ UNCHANGED <<storageInfo, showClearConfirm, isClearing, handlers, alerted>>
  /\ UNCHANGED <<storeVars, editorVars, effectVars, editVars, engineVars, appVars, cameraVars>>

\* the button 'Clear All Cache': the confirmation is shown
AskClear ==
  /\ showSettings /\ ~ showClearConfirm
  /\ showClearConfirm' = TRUE
  /\ UNCHANGED <<showSettings, storageInfo, isClearing, handlers, alerted>>
  /\ UNCHANGED <<storeVars, editorVars, effectVars, editVars, engineVars, appVars, cameraVars>>

\* the button 'Cancel' of the confirmation
CancelClear ==
  /\ showSettings /\ showClearConfirm /\ ~ isClearing
  /\ showClearConfirm' = FALSE
  /\ UNCHANGED <<showSettings, storageInfo, isClearing, handlers, alerted>>
  /\ UNCHANGED <<storeVars, editorVars, effectVars, editVars, engineVars, appVars, cameraVars>>

\* the button 'Clear All' of the confirmation: handleClearCache up to its
\* await of clearAllImages
HandleClearCache(c) ==
  /\ showSettings /\ showClearConfirm /\ ~ isClearing
  /\ c = FreeSlot /\ c \in CallIds
  /\ isClearing' = TRUE
  /\ handlers' = [handlers EXCEPT ![c] = [name |-> "handleClearCache"]]
  /\ UNCHANGED <<showSettings, storageInfo, showClearConfirm, alerted>>
  /\ UNCHANGED <<storeVars, editorVars, effectVars, editVars, engineVars, appVars, cameraVars>>

\* clearAllImages runs and handleClearCache goes on to its end; onCacheCleared
\* closes the dialog
ClearCacheDone(c) ==
  /\ handlers[c] = [name |-> "handleClearCache"]
  /\ ClearAllImages
  /\ storageInfo' = NoStorage
  /\ showClearConfirm' = FALSE
  /\ showSettings' = FALSE
  /\ isClearing' = FALSE
  /\ handlers' = [handlers EXCEPT ![c] = NoHandler]
  /\ appImages' = << >>
  /\ UNCHANGED alerted
  /\ UNCHANGED <<mounted, dateNow, editing, saves>>
  /\ UNCHANGED <<effectVars, editVars, engineVars, cameraVars>>

\* the button 'Clean Up Old Images (30+ days)': handleCleanupOld up to the
\* end of the query of cleanupOldImages(30)
HandleCleanupOld(c) ==
  /\ showSettings /\ ~ showClearConfirm
  /\ c = FreeSlot
  /\ CleanupQuery(c, RetentionDays)
  /\ handlers' = [handlers EXCEPT ![c] = [name |-> "handleCleanupOld", pc |-> "cleanup"]]
  /\ UNCHANGED <<showSettings, storageInfo, showClearConfirm, isClearing, alerted>>
  /\ UNCHANGED <<effectVars, editVars, engineVars, appVars, cameraVars>>

\* cleanupOldImages returns deletedCount; loadStorageInfo is called
CleanupOldDeleted(c) ==
  /\ handlers[c] = [name |-> "handleCleanupOld", pc |-> "cleanup"]
  /\ CleanupDelete(c)
  /\ handlers' = [handlers EXCEPT ![c] =
                    [name |-> "handleCleanupOld", pc |-> "load", deletedCount |-> last'.val]]
  /\ UNCHANGED <<showSettings, storageInfo, showClearConfirm, isClearing, alerted>>
  /\ UNCHANGED <<effectVars, editVars, engineVars, appVars, cameraVars>>

\* the first read of the getStorageInfo of that loadStorageInfo
CleanupOldLoad(c) ==
  /\ handlers[c].name = "handleCleanupOld" /\ handlers[c].pc = "load"
  /\ GetStorageInfoRead(c)
  /\ handlers' = [handlers EXCEPT ![c].pc = "info"]
  /\ UNCHANGED <<showSettings, storageInfo, showClearConfirm, isClearing, alerted>>
  /\ UNCHANGED <<effectVars, editVars, engineVars, appVars, cameraVars>>

\* getStorageInfo returns: setStorageInfo(info), then the alert with deletedCount
CleanupOldAlert(c) ==
  /\ handlers[c].name = "handleCleanupOld" /\ handlers[c].pc = "info"
  /\ GetStorageInfoSize(c)
  /\ storageInfo' = last'.val
  /\ alerted' = handlers[c].deletedCount
  /\ handlers' = [handlers EXCEPT ![c] = NoHandler]
  /\ UNCHANGED <<showSettings, showClearConfirm, isClearing>>
  /\ UNCHANGED <<effectVars, editVars, engineVars, appVars, cameraVars>>

\* records an earlier session has left in the store: a.jpg with its processed
\* file, last written 60 days before day 0, and b.jpg written on day 0
StoredRecords ==
  { [ id |-> 1, originalFile |-> [name |-> "a.jpg", size |-> 500],
      processedFile |-> [name |-> "a.png", size |-> 300], fileName |-> "a.jpg",
      lastPreset |-> Undefined, lastFormat |-> Undefined,
      createdAt |-> 0 - 2 * RetentionDays, updatedAt |-> 0 - 2 * RetentionDays ],
    [ id |-> 2, originalFile |-> [name |-> "b.jpg", size |-> 200],
      processedFile |-> UndefinedObj, fileName |-> "b.jpg",
      lastPreset |-> Undefined, lastFormat |-> Undefined,
      createdAt |-> 0, updatedAt |-> 0 ] }

\* the store when the app starts: some of these records are left
StoredInit ==
  /\ images \in SUBSET StoredRecords
  /\ keyGen = 3
  /\ now = 0
  /\ calls = [c \in CallIds |-> Idle]
  /\ last = [op |-> "init"]
  /\ assigned = { 1, 2 }

SettingsSpecInit == StoredInit /\ CropIdle /\ RenderIdle /\ UiIdle

SettingsNext ==
  \/ \E c \in CallIds : OpenSettings(c)
  \/ \E c \in CallIds : LoadStorageInfo(c)
  \/ CloseSettings
  \/ AskClear
  \/ CancelClear
  \/ \E c \in CallIds : HandleClearCache(c)
  \/ \E c \in CallIds : ClearCacheDone(c)
  \/ \E c \in CallIds : HandleCleanupOld(c)
  \/ \E c \in CallIds : CleanupOldDeleted(c)
  \/ \E c \in CallIds : CleanupOldLoad(c)
  \/ \E c \in CallIds : CleanupOldAlert(c)

SettingsSpec == SettingsSpecInit /\ [][SettingsNext]_vars

----------------------------------------------------------------------------
(* The App: the list of images it shows and the handlers that keep the      *)
(* store in step with it.  A handler runs up to an await and goes on when   *)
(* the awaited call returns; other handlers run in between.  The user acts  *)
(* once the stored images have been loaded, drops one file at a time, and   *)
(* neither drops nor deletes while the editor covers the page.  The editor  *)
(* is mounted with the image it is opened on.                               *)

\* uploads of a session, and times the Save button of the editor is pressed
MaxDrops == 1
MaxSaves == 1

\* files the user drops, pastes or captures: the stored a.jpg again, another
\* picture with the same name, and b.jpg
DroppedFiles == OriginalFiles \cup { [name |-> "a.jpg", size |-> 700] }

\* resizeImageForProcessing: the canvas re-encoded under the name of the
\* file, or the file itself when the canvas or the image fails
Resizings(file) == { file, [name |-> file.name, size |-> file.size \div 2] }

\* processImages([file])[0]: the picture without its background, a PNG
Processed(file) == [name |-> "processed.png", size |-> file.size + 1000]

\* new File([blob], name, ...): the bytes of the blob under the name
NewFile(blob, name) == [name |-> name, size |-> blob.size]

\* storedImageToImageFile
storedImageToImageFile(storedImage) ==
  [ id |-> storedImage.id,
    file |-> NewFile(storedImage.originalFile, storedImage.fileName),
    processedFile |-> IF storedImage.processedFile # UndefinedObj
                      THEN NewFile(storedImage.processedFile, storedImage.fileName)
                      ELSE UndefinedObj,
    lastPreset |-> storedImage.lastPreset,
    lastFormat |-> storedImage.lastFormat ]

\* an element of newImages in onDrop
NewImage(id, file) ==
  [ id |-> id, file |-> file, processedFile |-> UndefinedObj,
    lastPreset |-> Undefined, lastFormat |-> Undefined ]

\* a || b for strings
OrElse(a, b) == IF a # Undefined /\ a # "" THEN a ELSE b

\* images.find(img => img.id === id)
FindImage(list, id) ==
  IF \E i \in 1 .. Len(list) : list[i].id = id
  THEN list[CHOOSE i \in 1 .. Len(list) :
              list[i].id = id /\ \A j \in 1 .. (i - 1) : list[j].id # id]
  ELSE UndefinedObj

\* prev.filter(img => img.id !== id)
WithoutImage(list, id) ==
  LET Keep(image) == image.id # id IN SelectSeq(list, Keep)

\* { ...image, ...updates }
Spread(image, updates) ==
  [ f \in DOMAIN image \cup DOMAIN updates |->
      IF f \in DOMAIN updates THEN updates[f] ELSE image[f] ]

\* prev.map(img => img.id === id ? { ...img, ...updates } : img); with a whole
\* image for updates the image is replaced
ReplaceImage(list, id, updates) ==
  [ i \in 1 .. Len(list) |-> IF list[i].id = id THEN Spread(list[i], updates) ELSE list[i] ]

\* the mount effect: loadStoredImages, getImages and setImages(imageFiles)
LoadStoredImages ==
  /\ ~ mounted
  /\ GetImages
  /\ appImages' = [ i \in 1 .. Len(last'.val) |-> storedImageToImageFile(last'.val[i]) ]
  /\ mounted' = TRUE
  /\ UNCHANGED <<dateNow, editing, saves>>
  /\ UNCHANGED <<effectVars, settingsVars, editVars, engineVars, cameraVars>>

\* onDrop([file]) up to the end of the lookup of its first saveImage: the file
\* is resized, shown under the id Date.now() + 0 and saved
OnDropFiles(c, file, resized) ==
  /\ mounted /\ editing = Null
  /\ dateNow - FirstUploadMs < MaxDrops
  /\ c = FreeSlot
  /\ resized \in Resizings(file)
  /\ LET image == NewImage(dateNow + 0, resized)
     IN  /\ appImages' = Append(appImages, image)
         /\ handlers' = [handlers EXCEPT ![c] =
                           [name |-> "onDrop", pc |-> "saveOriginal", image |-> image]]
  /\ SaveImageLookup(c, resized, UndefinedObj, Undefined, Undefined)
  /\ dateNow' = dateNow + 1
  /\ UNCHANGED <<mounted, editing, saves>>
  /\ UNCHANGED <<showSettings, storageInfo, showClearConfirm, isClearing, alerted>>
  /\ UNCHANGED <<effectVars, editVars, engineVars>>

\* files dropped on the page or picked in the file dialog
OnDrop(c, file, resized) == OnDropFiles(c, file, resized) /\ UNCHANGED cameraVars

\* onDrop of the first image when initializeModel fails: setImages([])
OnDropFilesWithoutModel ==
  /\ mounted /\ editing = Null
  /\ dateNow - FirstUploadMs < MaxDrops
  /\ appImages = << >>
  /\ appImages' = << >>
  /\ dateNow' = dateNow + 1
  /\ UNCHANGED <<mounted, editing, saves>>
  /\ UNCHANGED <<storeVars, editorVars>>
  /\ UNCHANGED <<effectVars, settingsVars, editVars, engineVars>>

OnDropWithoutModel == OnDropFilesWithoutModel /\ UNCHANGED cameraVars

\* the first saveImage returns dbId, which is not used; processImages starts
OnDropSaved(c) ==
  /\ handlers[c].name = "onDrop" /\ handlers[c].pc = "saveOriginal"
  /\ SaveImageWrite(c)
  /\ handlers' = [handlers EXCEPT ![c].pc = "process"]
  /\ UNCHANGED appVars
  /\ UNCHANGED <<showSettings, storageInfo, showClearConfirm, isClearing, alerted>>
  /\ UNCHANGED <<effectVars, editVars, engineVars, cameraVars>>

\* processImages returns a result: the image of the list is replaced by
\* updatedImage and the second saveImage runs up to the end of its lookup
OnDropProcessed(c) ==
  /\ handlers[c].name = "onDrop" /\ handlers[c].pc = "process"
  /\ LET image == handlers[c].image
         result == Processed(image.file)
         updatedImage == [image EXCEPT !.processedFile = result]
     IN  /\ appImages' = ReplaceImage(appImages, image.id, updatedImage)
         /\ SaveImageLookup(c, image.file, result, Undefined, Undefined)
  /\ handlers' = [handlers EXCEPT ![c].pc = "saveProcessed"]
  /\ UNCHANGED <<mounted, dateNow, editing, saves>>
  /\ UNCHANGED <<showSettings, storageInfo, showClearConfirm, isClearing, alerted>>
  /\ UNCHANGED <<effectVars, editVars, engineVars, cameraVars>>

\* processImages returns nothing or throws: the handler is over
OnDropNotProcessed(c) ==
  /\ handlers[c].name = "onDrop" /\ handlers[c].pc = "process"
  /\ handlers' = [handlers EXCEPT ![c] = NoHandler]
  /\ UNCHANGED appVars
  /\ UNCHANGED <<storeVars, editorVars>>
  /\ UNCHANGED <<showSettings, storageInfo, showClearConfirm, isClearing, alerted>>
  /\ UNCHANGED <<effectVars, editVars, engineVars, cameraVars>>

\* the second saveImage returns
OnDropDone(c) ==
  /\ handlers[c].name = "onDrop" /\ handlers[c].pc = "saveProcessed"
  /\ SaveImageWrite(c)
  /\ handlers' = [handlers EXCEPT ![c] = NoHandler]
  /\ UNCHANGED appVars
  /\ UNCHANGED <<showSettings, storageInfo, showClearConfirm, isClearing, alerted>>
  /\ UNCHANGED <<effectVars, editVars, engineVars, cameraVars>>

\* onDelete(id): the image leaves the list and deleteImage(id) runs
OnDelete(id) ==
  /\ mounted /\ editing = Null
  /\ FindImage(appImages, id) # UndefinedObj
  /\ appImages' = WithoutImage(appImages, id)
  /\ DeleteImage(id)
  /\ UNCHANGED <<mounted, dateNow, editing, saves>>
  /\ UNCHANGED <<effectVars, settingsVars, editVars, engineVars, cameraVars>>

\* the list opens the editor on one of its images
EditImage(id) ==
  /\ mounted /\ editing = Null
  /\ FindImage(appImages, id) # UndefinedObj
  /\ editing' = [id |-> id]
  /\ selectedPreset' = "none" /\ cropArea' = Null /\ pending' = {}
  /\ UNCHANGED <<appImages, mounted, dateNow, saves>>
  /\ UNCHANGED <<img, preset, detector>>
  /\ UNCHANGED <<bgType, customBgImage, selectedEffect, run, exportUrl>>
  /\ UNCHANGED storeVars
  /\ UNCHANGED <<effectVars, settingsVars, editVars, engineVars, cameraVars>>

\* the close buttons of the editor: onClose
CloseEditor ==
  /\ editing # Null
  /\ editing' = Null
  /\ UNCHANGED <<appImages, mounted, dateNow, saves>>
  /\ UNCHANGED <<storeVars, editorVars>>
  /\ UNCHANGED <<effectVars, settingsVars, editVars, engineVars, cameraVars>>

\* the list passes what the editor saved on to the App: the chosen preset
\* id and format
OnSaveUpdates(url, presetId, format) == [lastPreset |-> presetId, lastFormat |-> format]

\* preset?.format || 'png'
SaveFormat(presetId) ==
  LET p == Find(presetId) IN IF p # UndefinedObj THEN OrElse(p.format, "png") ELSE "png"

\* the Save button: handleSave calls onSave and onClose; onImageUpdate merges
\* the updates into the image of the list and calls saveImage with the files
\* of the image as the rendered list has it, up to the end of the lookup
HandleSave(c) ==
  /\ editing # Null
  /\ saves < MaxSaves
  /\ saves' = saves + 1
  /\ c = FreeSlot
  /\ LET format == SaveFormat(selectedPreset)
         updates == OnSaveUpdates(exportUrl, selectedPreset, format)
         updatedImage == FindImage(appImages, editing.id)
     IN  /\ updatedImage # UndefinedObj
         /\ appImages' = ReplaceImage(appImages, editing.id, updates)
         /\ SaveImageLookup(c, updatedImage.file, updatedImage.processedFile,
                            OrElse(updates.lastPreset, updatedImage.lastPreset),
                            OrElse(updates.lastFormat, updatedImage.lastFormat))
         /\ handlers' = [handlers EXCEPT ![c] =
                           [name |-> "onImageUpdate", id |-> editing.id,
                            lastPreset |-> updates.lastPreset,
                            lastFormat |-> updates.lastFormat]]
  /\ editing' = Null
  /\ UNCHANGED <<mounted, dateNow>>
  /\ UNCHANGED <<showSettings, storageInfo, showClearConfirm, isClearing, alerted>>
  /\ UNCHANGED <<effectVars, editVars, engineVars, cameraVars>>

\* the saveImage of onImageUpdate returns
ImageUpdateSaved(c) ==
  /\ handlers[c].name = "onImageUpdate"
  /\ SaveImageWrite(c)
  /\ handlers' = [handlers EXCEPT ![c] = NoHandler]
  /\ UNCHANGED appVars
  /\ UNCHANGED <<showSettings, storageInfo, showClearConfirm, isClearing, alerted>>
  /\ UNCHANGED <<effectVars, editVars, engineVars, cameraVars>>

\* the store when the app starts: a.jpg of an earlier session under id 1,
\* unless it has been deleted since
AppStoredInit ==
  /\ images \in SUBSET { r \in StoredRecords : r.id = 1 }
  /\ keyGen = 2
  /\ now = 0
  /\ calls = [c \in CallIds |-> Idle]
  /\ last = [op |-> "init"]
  /\ assigned = { 1 }

AppSpecInit == AppStoredInit /\ CropIdle /\ RenderIdle /\ UiIdle

AppNext ==
  \/ LoadStoredImages
  \/ \E c \in CallIds, file \in DroppedFiles :
        \E resized \in Resizings(file) : OnDrop(c, file, resized)
  \/ OnDropWithoutModel
  \/ \E c \in CallIds : OnDropSaved(c)
  \/ \E c \in CallIds : OnDropProcessed(c)
  \/ \E c \in CallIds : OnDropNotProcessed(c)
  \/ \E c \in CallIds : OnDropDone(c)
  \/ \E i \in 1 .. Len(appImages) : OnDelete(appImages[i].id)

AppSpec == AppSpecInit /\ [][AppNext]_vars

\* the uploads and the editor: an image of the list is opened, a preset is
\* chosen and Save is pressed
SaveNext ==
  \/ LoadStoredImages
  \/ \E c \in CallIds, file \in DroppedFiles :
        \E resized \in Resizings(file) : OnDrop(c, file, resized)
  \/ OnDropWithoutModel
  \/ \E c \in CallIds : OnDropSaved(c)
  \/ \E c \in CallIds : OnDropProcessed(c)
  \/ \E c \in CallIds : OnDropNotProcessed(c)
  \/ \E c \in CallIds : OnDropDone(c)
  \/ \E i \in 1 .. Len(appImages) : EditImage(appImages[i].id)
  \/ \E presetId \in RequestedPresetIds :
        editing # Null /\ HandlePresetChange(presetId) /\ UNCHANGED uiVars
  \/ \E p \in pending : SetCropArea(p) /\ UNCHANGED uiVars
  \/ CloseEditor
  \/ \E c \in CallIds : HandleSave(c)
  \/ \E c \in CallIds : ImageUpdateSaved(c)

SaveSpec == AppSpecInit /\ [][SaveNext]_vars

-----------------------------------------------------------------------------
(* The camera preview of the desktop page.  The component stays mounted    *)
(* while the preview is closed.  Its effect depends on [isOpen,            *)
(* facingMode]: when one of them changes, React runs the cleanup the       *)
(* effect returned last, then the effect of the new render.  Both are      *)
(* closures: `cleanup` stops the stream of the render that created it.     *)
(* `streams` records the answer to every getUserMedia request; a stream is *)
(* "live" until its tracks are stopped.                                    *)

MaxRequests == 3

FacingModes == { "user", "environment" }

\* the photo handleCapture makes of the video frame
CapturedFile == [name |-> "camera-capture.jpg", size |-> 900]

Issued == Len(streams) + requests

\* stream.getTracks().forEach(track => track.stop()), when there is a stream
StopTracks(tracks, s) == IF s = Null THEN tracks ELSE [tracks EXCEPT ![s.id] = "stopped"]

\* the commit of a render in which isOpen or facingMode has changed:
\* `rendered` is the stream state of that render, `tracks` the streams as the
\* handler has left them.  The cleanup of the last effect runs on the stream
\* it has captured, then the effect calls initCamera or the cleanup of this
\* render, and the cleanup of this render is kept for the next change.
RunEffect(isOpen, rendered, tracks) ==
  LET released == StopTracks(tracks, cleanupStream)
  IN  /\ streams' = IF isOpen THEN released ELSE StopTracks(released, rendered)
      /\ stream' = IF cleanupStream # Null \/ (~ isOpen /\ rendered # Null)
                     THEN Null ELSE rendered
      /\ requests' = IF isOpen THEN requests + 1 ELSE requests
      /\ cameraError' = IF isOpen THEN FALSE ELSE cameraError
      /\ cleanupStream' = rendered

\* the camera button of the desktop page: setShowCameraPreview(true)
HandleCameraCapture ==
  /\ ~ showCameraPreview
  /\ Issued < MaxRequests
  /\ showCameraPreview' = TRUE
  /\ RunEffect(TRUE, stream, streams)
  /\ UNCHANGED facingMode
  /\ UNCHANGED <<storeVars, editorVars>>
  /\ UNCHANGED <<effectVars, settingsVars, editVars, engineVars, appVars>>

\* the close button: cleanup() of the render on screen, then onClose()
HandleClose ==
  /\ showCameraPreview
  /\ showCameraPreview' = FALSE
  /\ RunEffect(FALSE, Null, StopTracks(streams, stream))
  /\ UNCHANGED facingMode
  /\ UNCHANGED <<storeVars, editorVars>>
  /\ UNCHANGED <<effectVars, settingsVars, editVars, engineVars, appVars>>

SwitchCamera ==
  /\ showCameraPreview
  /\ Issued < MaxRequests
  /\ facingMode' = IF facingMode = "user" THEN "environment" ELSE "user"
  /\ RunEffect(TRUE, stream, streams)
  /\ UNCHANGED showCameraPreview
  /\ UNCHANGED <<storeVars, editorVars>>
  /\ UNCHANGED <<effectVars, settingsVars, editVars, engineVars, appVars>>

\* the Try Again button of the error panel calls initCamera itself
TryAgain ==
  /\ showCameraPreview /\ cameraError
  /\ Issued < MaxRequests
  /\ requests' = requests + 1
  /\ cameraError' = FALSE
  /\ UNCHANGED <<showCameraPreview, facingMode, stream, cleanupStream, streams>>
  /\ UNCHANGED <<storeVars, editorVars>>
  /\ UNCHANGED <<effectVars, settingsVars, editVars, engineVars, appVars>>

\* getUserMedia resolves: setStream(newStream), and the video plays it when
\* the preview is on screen; a failing play() is caught like a denial
GetUserMediaResolves(played) ==
  /\ requests > 0
  /\ played \/ showCameraPreview
  /\ requests' = requests - 1
  /\ streams' = Append(streams, "live")
  /\ stream' = [id |-> Len(streams) + 1]
  /\ cameraError' = (cameraError \/ ~ played)
  /\ UNCHANGED <<showCameraPreview, facingMode, cleanupStream>>
  /\ UNCHANGED <<storeVars, editorVars>>
  /\ UNCHANGED <<effectVars, settingsVars, editVars, engineVars, appVars>>

\* getUserMedia rejects: setError
GetUserMediaRejects ==
  /\ requests > 0
  /\ requests' = requests - 1
  /\ streams' = Append(streams, "denied")
  /\ cameraError' = TRUE
  /\ UNCHANGED <<showCameraPreview, facingMode, stream, cleanupStream>>
  /\ UNCHANGED <<storeVars, editorVars>>
  /\ UNCHANGED <<effectVars, settingsVars, editVars, engineVars, appVars>>

\* the capture button is shown when stream && !error
CanCapture == showCameraPreview /\ stream # Null /\ ~ cameraError

\* handleCapture hands the photo to handlePhotoCapture, which closes the
\* preview without handleClose and passes the photo to onDrop
HandlePhotoCapture(c, resized) ==
  /\ CanCapture
  /\ OnDropFiles(c, CapturedFile, resized)
  /\ showCameraPreview' = FALSE
  /\ RunEffect(FALSE, stream, streams)
  /\ UNCHANGED facingMode

HandlePhotoCaptureWithoutModel ==
  /\ CanCapture
  /\ OnDropFilesWithoutModel
  /\ showCameraPreview' = FALSE
  /\ RunEffect(FALSE, stream, streams)
  /\ UNCHANGED facingMode

CameraNext ==
  \/ LoadStoredImages
  \/ HandleCameraCapture
  \/ HandleClose
  \/ SwitchCamera
  \/ TryAgain
  \/ \E played \in BOOLEAN : GetUserMediaResolves(played)
  \/ GetUserMediaRejects
  \/ \E c \in CallIds : \E resized \in Resizings(CapturedFile) : HandlePhotoCapture(c, resized)
  \/ HandlePhotoCaptureWithoutModel
  \/ \E c \in CallIds : OnDropSaved(c)
  \/ \E c \in CallIds : OnDropProcessed(c)
  \/ \E c \in CallIds : OnDropNotProcessed(c)
  \/ \E c \in CallIds : OnDropDone(c)

CameraSpec == AppSpecInit /\ [][CameraNext]_vars

----------------------------------------------------------------------------
(* Properties of the store *)

RecordsNamed(n) == { r \in images : r.fileName = n }

\* bytes of one record: its original plus its processed file, when it has one
BytesOf(r) ==
  r.originalFile.size + (IF r.processedFile = UndefinedObj THEN 0 ELSE r.processedFile.size)

RECURSIVE SumBytes(_)
SumBytes(S) ==
  IF S = {} THEN 0
  ELSE LET r == CHOOSE x \in S : TRUE IN BytesOf(r) + SumBytes(S \ { r })

\* C1: when saveImage calls do not overlap, no two records share a file name,
\* and after a saveImage call the store holds exactly one record with the
\* name that was saved.
C1_OneRecordPerName ==
  /\ \A n \in FileNames : Cardinality(RecordsNamed(n)) <= 1
  /\ last.op = "saveImage" => Cardinality(RecordsNamed(last.name)) = 1

\* C1 witness: a name was saved at least twice (its record was updated on a
\* later day than it was created) and its record is the only one of that name
C1_Witness ==
  /\ last.op = "saveImage"
  /\ \E r \in images : r.fileName = last.name /\ r.createdAt < r.updatedAt
  /\ Cardinality(images) = 2

\* C2: a saveImage on a name that has a record keeps the record's
\* processedFile, lastPreset and lastFormat when the call does not supply them.
C2_MonotonicMerge ==
  [][ \A c \in CallIds :
        (SaveImageWrite(c) /\ Len(calls[c].existingImages) > 0) =>
          \A r \in images :
            r.id = calls[c].existingImages[1].id =>
              \E r2 \in images' :
                /\ r2.id = r.id
                /\ calls[c].processedFile = UndefinedObj => r2.processedFile = r.processedFile
                /\ calls[c].lastPreset = Undefined => r2.lastPreset = r.lastPreset
                /\ calls[c].lastFormat = Undefined => r2.lastFormat = r.lastFormat ]_vars

\* C3: no step changes the createdAt of a record, and a saveImage on a name
\* that has a record returns the id of that record, which keeps its id, its
\* name and its createdAt.
C3_CreatedAtImmutable ==
  [][ /\ \A r \in images : \A r2 \in images' : r2.id = r.id => r2.createdAt = r.createdAt
      /\ \A c \in CallIds :
           SaveImageWrite(c) =>
             \A r \in images :
               r.fileName = calls[c].originalFile.name =>
                 /\ last'.val = r.id
                 /\ \E r2 \in images' :
                      /\ r2.id = r.id
                      /\ r2.fileName = r.fileName
                      /\ r2.createdAt = r.createdAt ]_vars

\* C3 witness: a save of an existing name returned the id of its record,
\* which was created on an earlier day
C3_Witness ==
  /\ last.op = "saveImage"
  /\ \E r \in images : r.id = last.val /\ r.createdAt < r.updatedAt /\ r.updatedAt = now

\* C4: getStorageSize returns the sum over the records in the store of the
\* size of the original file plus the size of the processed file when there
\* is one; one record a.jpg of 500 bytes gives 500, and 800 once it has a
\* processed file of 300 bytes.
C4_StorageSizeIsSum ==
  last.op = "getStorageSize" =>
    /\ last.val = SumBytes(images)
    /\ \A r \in images :
         (images = { r } /\ r.originalFile.size = 500) =>
           last.val = (IF r.processedFile = UndefinedObj THEN 500 ELSE 800)

\* C4 witness: the size of a store holding a.jpg with its processed file is read
C4_Witness ==
  /\ last.op = "getStorageSize"
  /\ last.val = 800
  /\ Cardinality(images) = 1

\* C5: cleanupOldImages(days) deletes the records whose updatedAt is before
\* now - days, keeps every other record as it is, and returns the number of
\* records it deleted.
C5_CleanupDeletesExactlyOld ==
  [][ \A c \in CallIds :
        CleanupDelete(c) =>
          /\ images' = { r \in images : ~ (r.updatedAt < now - calls[c].daysToKeep) }
          /\ last'.val = Cardinality(images) - Cardinality(images') ]_vars

\* C5 witness: a cleanup deleted a record and kept one whose updatedAt is the cutoff
C5_Witness ==
  /\ last.op = "cleanupOldImages"
  /\ last.val > 0
  /\ \E r \in images : r.updatedAt = last.at - last.daysToKeep

\* C6 as stated: a cleanupOldImages(d) that follows a cleanupOldImages(d) with
\* no write to the store in between deletes no record and returns 0.
C6_SecondCleanupDeletesNothing ==
  [][ \A c \in CallIds :
        ( /\ CleanupDelete(c)
          /\ last.op = "cleanupOldImages"
          /\ last.daysToKeep = calls[c].daysToKeep ) =>
          (images' = images /\ last'.val = 0) ]_vars

\* C6 amended: a cleanupOldImages(d) that follows a cleanupOldImages(d) with no
\* write to the store in between and at the same reading of the clock deletes
\* no record and returns 0.
C6_SecondCleanupSameClock ==
  [][ \A c \in CallIds :
        ( /\ CleanupDelete(c)
          /\ last.op = "cleanupOldImages"
          /\ last.daysToKeep = calls[c].daysToKeep
          /\ last.at = now ) =>
          (images' = images /\ last'.val = 0) ]_vars

\* C6 witness: a cleanup that deleted a record was repeated at once
C6_Witness ==
  /\ last.op = "cleanupOldImages"
  /\ last.prior.op = "cleanupOldImages"
  /\ last.prior.daysToKeep = last.daysToKeep
  /\ last.prior.at = last.at
  /\ last.prior.val > 0
  /\ images # {}

\* C7: at most one record exists per file name, in every reachable state,
\* overlapping saveImage calls included.
C7_UniqueNames ==
  \A n \in FileNames : Cardinality(RecordsNamed(n)) <= 1

\* C8: the id of a newly inserted record was never assigned before.
C8_IdsNeverReused ==
  [][ \A r \in images' :
        r.id \notin KeysOf(images) => r.id \notin assigned ]_vars

\* C8 witness: a record was inserted after the deletion of an older one
C8_Witness ==
  \E r \in images : \E old \in assigned : old \notin KeysOf(images) /\ old < r.id

\* C9: getImage of an id without a record returns undefined, and deleteImage
\* of an id without a record completes and leaves the store as it is.
C9_NotFoundIsNoError ==
  [][ \A id \in Ids :
        id \notin KeysOf(images) =>
          /\ GetImage(id) => (last'.val = UndefinedObj /\ images' = images)
          /\ DeleteImage(id) => (last'.op = "deleteImage" /\ images' = images) ]_vars

\* C9 witness: an id that never had a record was deleted from a store with records
C9_Witness ==
  /\ last.op = "deleteImage"
  /\ last.id \notin assigned
  /\ images # {}

----------------------------------------------------------------------------
(* Properties of the crop planner *)

Planned == cropArea # NotPlanned /\ cropArea # Null

\* C10: the crop rectangle lies inside the source image, for every source of
\* at least 1x1, every preset but 'none' and every subject region, one
\* outside the image included.
C10_CropInsideSource ==
  Planned =>
    /\ LessEq(Num(0), cropArea.x)
    /\ LessEq(Num(0), cropArea.y)
    /\ LessEq(Plus(cropArea.x, cropArea.width), Num(img.width))
    /\ LessEq(Plus(cropArea.y, cropArea.height), Num(img.height))

\* C10 witness: a subject region below the image, and a crop that the clamp
\* put at the lower edge of a taller source
C10_Witness ==
  /\ Planned
  /\ detector.kind = "face"
  /\ detector.box.y > img.height
  /\ Less(cropArea.height, Num(img.height))
  /\ Plus(cropArea.y, cropArea.height) = Num(img.height)

\* the source is relatively wider than the preset (compared on integers)
SourceWider == img.width * preset.height > img.height * preset.width

\* C11 as stated: the crop rectangle has exactly the preset's aspect ratio,
\* width * preset.height = height * preset.width, in both branches.
C11_CropHasPresetRatio ==
  Planned =>
    Times(cropArea.width, Num(preset.height)) = Times(cropArea.height, Num(preset.width))

\* 2^-50, a few roundings of a double
Tolerance == [neg |-> FALSE, m |-> << 1 >>, e |-> 0 - 50]

\* |a - b|
Distance(a, b) == IF Less(a, b) THEN Minus(b, a) ELSE Minus(a, b)

\* C11 amended: the crop rectangle has the preset's aspect ratio up to the
\* rounding of doubles: width * preset.height and height * preset.width differ
\* by at most 2^-50 of their value, and are equal when the source is
\* relatively wider than the preset.
C11_CropHasPresetRatioRounded ==
  Planned =>
    LET wh == Times(cropArea.width, Num(preset.height))
        hw == Times(cropArea.height, Num(preset.width))
    IN  /\ LessEq(Distance(wh, hw), Times(Tolerance, hw))
        /\ SourceWider => wh = hw

\* C11 witness: a taller source of width 7 cropped for the 420x560 preset; the
\* height 7 / 0.75 is not a double
C11_Witness ==
  /\ Planned
  /\ ~ SourceWider
  /\ preset.id = "china-visa"
  /\ img.width = 7
  /\ Less(cropArea.height, Num(img.height))
  /\ Times(cropArea.height, Num(preset.width)) # Num(img.width * preset.height)

\* C12: without a subject region the crop is centred on the free axis: for a
\* wider source height = source height, y = 0 and x = (source width - width) / 2,
\* otherwise width = source width, x = 0 and y = (source height - height) / 2;
\* 1000x500 with a 1:1 preset gives {x: 250, y: 0, width: 500, height: 500}.
C12_CentredWithoutSubject ==
  (Planned /\ detector.kind # "face") =>
    /\ IF SourceWider
       THEN /\ cropArea.height = Num(img.height)
            /\ cropArea.y = Num(0)
            /\ cropArea.x = Over(Minus(Num(img.width), cropArea.width), Num(2))
       ELSE /\ cropArea.width = Num(img.width)
            /\ cropArea.x = Num(0)
            /\ cropArea.y = Over(Minus(Num(img.height), cropArea.height), Num(2))
    /\ (img.width = 1000 /\ img.height = 500 /\ preset.width = preset.height) =>
         cropArea = [x |-> Num(250), y |-> Num(0), width |-> Num(500), height |-> Num(500)]

\* C12 witness: the 1000x500 source with a square preset and no subject
C12_Witness ==
  /\ Planned
  /\ detector.kind = "noface"
  /\ img = [width |-> 1000, height |-> 500]
  /\ preset.id = "linkedin"
  /\ cropArea.x = Num(250)

\* v limited to the interval lo .. hi
Clamp(v, lo, hi) == IF Less(v, lo) THEN lo ELSE IF Less(hi, v) THEN hi ELSE v

\* C13: with a subject region the offset on the free axis is
\* clamp(subjectCenterX - width/2, 0, source width - width) for a wider source
\* and clamp(subjectCenterY - 0.4*height, 0, source height - height) otherwise;
\* where no clamping is needed the subject centre lies at 40% of the crop
\* height from the top (at the middle of the crop width for a wider source).
C13_SubjectAnchoredOffset ==
  (Planned /\ detector.kind = "face") =>
    LET b == detector.box
        centerX == Plus(Num(b.x), Over(Num(b.width), Num(2)))
        centerY == Plus(Num(b.y), Over(Num(b.height), Num(2)))
        roomX == Minus(Num(img.width), cropArea.width)
        roomY == Minus(Num(img.height), cropArea.height)
    IN  IF SourceWider
        THEN /\ cropArea.y = Num(0)
             /\ cropArea.x = Clamp(Minus(centerX, Over(cropArea.width, Num(2))), Num(0), roomX)
             /\ (Less(Num(0), cropArea.x) /\ Less(cropArea.x, roomX)) =>
                  Plus(cropArea.x, Over(cropArea.width, Num(2))) = centerX
        ELSE /\ cropArea.x = Num(0)
             /\ cropArea.y = Clamp(Minus(centerY, Times(Literal(4, 10), cropArea.height)), Num(0), roomY)
             /\ (Less(Num(0), cropArea.y) /\ Less(cropArea.y, roomY)) =>
                  Plus(cropArea.y, Times(Literal(4, 10), cropArea.height)) = centerY

\* C13 witness: a taller source whose crop is placed by the subject, unclamped
C13_Witness ==
  /\ Planned
  /\ detector.kind = "face"
  /\ ~ SourceWider
  /\ Less(Num(0), cropArea.y)
  /\ Less(Plus(cropArea.y, cropArea.height), Num(img.height))

\* the centred rectangle of the preset's ratio
CentredCrop ==
  LET ratio == Over(Num(preset.width), Num(preset.height))
  IN  IF SourceWider
      THEN LET width == Times(Num(img.height), ratio)
           IN  [ x |-> Over(Minus(Num(img.width), width), Num(2)), y |-> Num(0),
                 width |-> width, height |-> Num(img.height) ]
      ELSE LET height == Over(Num(img.width), ratio)
           IN  [ x |-> Num(0), y |-> Over(Minus(Num(img.height), height), Num(2)),
                 width |-> Num(img.width), height |-> height ]

\* C14: when the detector is unavailable, throws or finds no subject,
\* calculateCropArea still returns a rectangle, the centred one of the same
\* source and preset.
C14_DetectionFailureNotFatal ==
  ( /\ cropArea # NotPlanned
    /\ preset.id # "none"
    /\ detector.kind \in { "unavailable", "throws", "noface" } ) =>
    (cropArea # Null /\ cropArea = CentredCrop)

\* C14 witness: the detector threw and the crop is centred with room on both sides
C14_Witness ==
  /\ Planned
  /\ detector.kind = "throws"
  /\ Less(Num(0), cropArea.x)

----------------------------------------------------------------------------
(* Properties of the render and of the export *)

\* an applyChanges call has published the outcome of a quality search
SearchDone ==
  /\ run.pc = "done"
  /\ run.preset # UndefinedObj
  /\ run.preset.format = "jpeg"
  /\ run.preset.maxFileSize # 0

\* C15 as stated: the quality search returns an encoding whose estimated size
\* (length * 0.75) is within the budget, or else the loop has run exactly 10
\* times and has stopped because its 10-attempt bound is exhausted.
C15_BudgetOrTenAttempts ==
  SearchDone =>
    \/ ~ OverBudget(exportUrl, run.preset)
    \/ run.attempts = 10

\* C15 amended: the quality search returns an encoding whose estimated size is
\* within the budget, or else the tenth encoding (the first one and 9 turns of
\* the loop), which has the lowest quality used; the loop has then stopped
\* because the quality is not above 0.1, one turn short of its attempt bound.
C15_BudgetOrQualityFloor ==
  SearchDone =>
    \/ ~ OverBudget(exportUrl, run.preset)
    \/ /\ run.attempts + 1 = 10
       /\ run.attempts < 10
       /\ ~ Less(QualityFloor, run.quality)
       /\ exportUrl.quality = run.quality

\* C15 witness: every encoding was over the budget of 120 KB and the tenth was
\* published
C15_Witness ==
  /\ SearchDone
  /\ run.preset.id = "china-visa"
  /\ OverBudget(exportUrl, run.preset)
  /\ ~ run.everWithin
  /\ run.attempts = 9

\* an applyChanges call has made a JPEG encoding
JpegEncoded == run.dataUrl.type = "image/jpeg"

\* C16: the quality search starts at 0.9, makes at most 10 re-encodes, never
\* encodes at a quality below 0.1, and publishes the last encoding made, which
\* is over the budget only if every encoding before it was.
C16_QualitySearchBounded ==
  JpegEncoded =>
    /\ run.attempts = 0 => run.quality = InitialQuality
    /\ run.attempts <= 10
    /\ LessEq(QualityFloor, run.dataUrl.quality)
    /\ run.pc = "done" => exportUrl = run.dataUrl
    /\ (SearchDone /\ OverBudget(exportUrl, run.preset)) => ~ run.everWithin

\* a call waits for a background image that does not decode
BrokenBackground ==
  /\ run.pc = "loadBackground"
  /\ ~ run.customBgImage.decodes

\* a step of the applyChanges call that has started
ApplyChangesStep ==
  \/ ImageLoaded
  \/ BackgroundLoaded
  \/ DrawSubject
  \/ \E length \in Lengths : Encode(length)
  \/ \E length \in Lengths : Reencode(length)
  \/ SetExportUrl

\* C17: when the background image fails to load, applyChanges goes on to its
\* end (an error handed to its caller): the call has a next step, and it has
\* neither drawn the subject nor published an export.
C17_BackgroundFailurePropagates ==
  BrokenBackground =>
    /\ ENABLED ApplyChangesStep
    /\ Len(run.canvas.drawn) = 0
    /\ exportUrl = NoUrl

\* the first drawing covers the whole canvas with the background
BackgroundDrawnFirst ==
  /\ Len(run.canvas.drawn) > 1
  /\ run.canvas.drawn[1].what \in { "fillRect", "bgImg" }
  /\ run.canvas.drawn[1].to = [x |-> 0, y |-> 0, width |-> run.canvas.width,
                               height |-> run.canvas.height]

\* the subject has been drawn
SubjectDrawn == \E i \in 1 .. Len(run.canvas.drawn) : run.canvas.drawn[i].what = "img"

\* C18 as stated: in every render a background that covers the whole canvas
\* is drawn before the subject.
C18_BackgroundBeforeSubject ==
  SubjectDrawn =>
    /\ BackgroundDrawnFirst
    /\ run.canvas.drawn[Len(run.canvas.drawn)].what = "img"

\* C18 amended: in every render with background type 'color', or 'image' and
\* a background file, a background that covers the whole canvas is drawn
\* before the subject; with type 'image' and no file the subject is drawn on
\* the empty canvas.
C18_BackgroundBeforeSubjectIfChosen ==
  SubjectDrawn =>
    IF run.bgType = "color" \/ run.customBgImage # Null
    THEN /\ BackgroundDrawnFirst
         /\ run.canvas.drawn[1].what = (IF run.bgType = "color" THEN "fillRect" ELSE "bgImg")
         /\ run.canvas.drawn[2].what = "img"
         /\ Len(run.canvas.drawn) = 2
    ELSE /\ Len(run.canvas.drawn) = 1
         /\ run.canvas.drawn[1].what = "img"

\* C18 witness: the subject drawn over a stretched background image on a
\* canvas of a preset's size
C18_Witness ==
  /\ SubjectDrawn
  /\ run.bgType = "image"
  /\ run.canvas.drawn[1].what = "bgImg"
  /\ run.canvas.width = 420

\* the call renders a crop: its preset is one of the catalogue other than
\* 'none' and it has a crop rectangle
RendersCrop ==
  /\ \E i \in 1 .. Len(photoPresets) :
        photoPresets[i].id = run.selectedPreset /\ run.selectedPreset # "none"
  /\ run.cropArea # Null

\* C19: the canvas has the preset's width and height when a crop rectangle
\* comes with a preset other than 'none', and the source's otherwise; the
\* crop rectangle is drawn scaled over the whole canvas, and without one the
\* whole source is drawn at its own size.
C19_TargetSize ==
  (run.pc \notin { "idle", "loadImage" }) =>
    /\ IF RendersCrop
       THEN \E i \in 1 .. Len(photoPresets) :
              /\ photoPresets[i].id = run.selectedPreset
              /\ run.canvas.width = photoPresets[i].width
              /\ run.canvas.height = photoPresets[i].height
       ELSE run.canvas.width = img.width /\ run.canvas.height = img.height
    /\ \A i \in 1 .. Len(run.canvas.drawn) :
         run.canvas.drawn[i].what = "img" =>
           IF RendersCrop
           THEN /\ run.canvas.drawn[i].from = run.cropArea
                /\ run.canvas.drawn[i].to = [x |-> 0, y |-> 0, width |-> run.canvas.width,
                                             height |-> run.canvas.height]
           ELSE /\ run.canvas.drawn[i].from = Null
                /\ run.canvas.drawn[i].to = [x |-> 0, y |-> 0, width |-> img.width,
                                             height |-> img.height]

\* C19 witness: the crop of a 3x7 source drawn over a canvas of 420x560
C19_Witness ==
  /\ SubjectDrawn
  /\ RendersCrop
  /\ run.selectedPreset = "china-visa"
  /\ run.canvas.width = 420
  /\ run.canvas.height = 560
  /\ img.width = 3

\* the id is 'none' or the id of no preset
IdentityPreset(presetId) ==
  presetId = "none" \/ \A i \in 1 .. Len(photoPresets) : photoPresets[i].id # presetId

\* C20: a preset id that is 'none' or unknown produces no crop rectangle, and
\* a render with such an id has the source's size, is encoded as PNG and runs
\* no quality search.
C20_IdentityPreset ==
  /\ [][ \A presetId \in RequestedPresetIds :
           (HandlePresetChange(presetId) /\ IdentityPreset(presetId)) =>
             (cropArea' = Null /\ pending' = pending) ]_vars
  /\ [] ( (IdentityPreset(run.selectedPreset) /\ run.pc \notin { "idle", "loadImage" }) =>
            /\ run.canvas.width = img.width
            /\ run.canvas.height = img.height
            /\ run.pc \in { "publish", "done" } => run.dataUrl.type = "image/png"
            /\ run.pc # "search"
            /\ run.attempts = 0
            /\ run.quality = Null )

\* C20 witness: an export under an unknown id, made while a crop rectangle of
\* an earlier preset was still set
C20_Witness ==
  /\ run.pc = "done"
  /\ run.selectedPreset = UnknownPresetId
  /\ run.cropArea # Null
  /\ exportUrl.type = "image/png"

----------------------------------------------------------------------------
(* Properties of the brightness effect *)

Affected == data # Null

\* C21: the brightness effect scales the R, G and B channel of a pixel by
\* intensity / 50 (to the nearest integer) and limits it to 255, and leaves
\* alpha as it is: intensity 50 yields c and intensity 100 yields min(255, 2c)
\* for every channel value c.
C21_BrightnessScales ==
  Affected =>
    /\ data[4] = pixel[4]
    /\ \A i \in 1 .. 3 :
         /\ data[i] \in 0 .. 255
         /\ IF pixel[i] * brightnessValue > 255 * 50
            THEN data[i] = 255
            ELSE /\ 50 * data[i] - pixel[i] * brightnessValue <= 25
                 /\ pixel[i] * brightnessValue - 50 * data[i] <= 25
         /\ brightnessValue = 50 => data[i] = pixel[i]
         /\ brightnessValue = 100 =>
              data[i] = (IF 2 * pixel[i] > 255 THEN 255 ELSE 2 * pixel[i])

\* C21 witness: intensity 100 doubled a channel of 127 to 254 and limited the
\* two others to 255, on a transparent pixel
C21_Witness ==
  /\ Affected
  /\ brightnessValue = 100
  /\ pixel = << 127, SampleChannel, SampleChannel, 0 >>
  /\ data = << 254, 255, 255, 0 >>

----------------------------------------------------------------------------
(* Properties of getStorageInfo *)

\* C24: the count and the totalSize that getStorageInfo returns describe one
\* state of the store, the one of its first read or the one of its second
\* read: count is the number of records and totalSize the sum of their
\* original and processed sizes in that state, also when a saveImage,
\* deleteImage or clearAllImages call runs between the two reads.
C24_StorageInfoOneState ==
  [][ \A c \in CallIds :
        GetStorageInfoSize(c) =>
          \/ /\ last'.val.count = Cardinality(images)
             /\ last'.val.totalSize = SumBytes(images)
          \/ /\ last'.val.count = Len(calls[c].images)
             /\ last'.val.totalSize = TotalSize(calls[c].images) ]_vars

----------------------------------------------------------------------------
(* Properties of the settings dialog *)

\* the dialog shows the confirmation of this operation and the user has
\* accepted it; the only confirmation it has is the one of clearAllImages
Confirmed(op) == op = "clearAllImages" /\ showClearConfirm /\ isClearing

\* C22: every call of clearAllImages and every call of cleanupOldImages that
\* the settings dialog makes follows a confirmation of that operation that
\* the user has accepted.
C22_DestructiveCallsConfirmed ==
  [][ \A c \in CallIds :
        /\ (ClearCacheDone(c) /\ ClearAllImages) => Confirmed("clearAllImages")
        /\ (HandleCleanupOld(c) /\ CleanupQuery(c, RetentionDays)) =>
             Confirmed("cleanupOldImages") ]_vars

\* C29: a saveImage call that resolves with an id has stored its data: when
\* the write step of a call returns, the table holds a record under the
\* returned id with the file the call was given, whatever other calls ran
\* between its lookup and its write.
C29_ResolvedSaveIsStored ==
  [][ \A c \in CallIds :
        SaveImageWrite(c) =>
          \E r \in images' : /\ r.id = last'.val
                             /\ r.fileName = calls[c].originalFile.name
                             /\ r.originalFile = calls[c].originalFile ]_vars

\* C28: whenever applyChanges crops, the rectangle it uses is the one
\* calculateCropArea gives for the preset it renders, also for a call started
\* between setSelectedPreset and the setCropArea of handlePresetChange.
C28_CropOfSelectedPreset ==
  LET p == Find(run.selectedPreset)
  IN  (run.pc # "idle" /\ p # UndefinedObj /\ p.id # "none" /\ run.cropArea # Null)
        => run.cropArea = calculateCropArea(img, p, detector)

\* the applyChanges call that was started last
LastStarted == IF waiting.call > run.call THEN waiting ELSE run

\* C27: once every applyChanges call that was started has completed,
\* exportUrl is the data URL of the call started last; a call started
\* earlier never overwrites it.
C27_ExportOfLastStarted ==
  (run.pc = "done" /\ waiting.pc \in { "idle", "done" })
    => exportUrl = LastStarted.dataUrl

\* table requests an operation makes when none rejects
RequestsOf(op) ==
  IF op \in { "saveImage", "getStorageInfo", "cleanupOldImages" } THEN 2 ELSE 1

\* C25: a fault of the storage engine during a store operation reaches the
\* caller as a failure of that operation: the operation ends with the
\* engine's error and never with a result, it has sent each of its requests
\* at most once, and a saveImage whose request faults leaves the records as
\* they were.
C25_FaultsPropagate ==
  [][ /\ engine'.issued <= RequestsOf(engine'.op)
      /\ engine'.faulted =>
            /\ \A c \in CallIds : calls'[c] = Idle
            /\ last'.op = engine'.op
            /\ DOMAIN last' = { "op", "error" }
            /\ last'.error = EngineFault
      /\ (engine'.faulted /\ engine' # engine /\ engine'.op = "saveImage")
            => images' = images ]_vars

\* the update of a saveImage for a stored name has faulted
C25_Witness ==
  /\ engine = [op |-> "saveImage", issued |-> 2, faulted |-> TRUE]
  /\ last = [op |-> "saveImage", error |-> EngineFault]
  /\ images # {}
  /\ Quiescent

\* the same bytes, or no file on either side
SameBytes(f, g) ==
  IF f = UndefinedObj \/ g = UndefinedObj THEN f = g ELSE f.size = g.size

\* C26: deleting an image in the list destroys its store record: when
\* onDelete has run for an image, uploaded in this session or loaded from
\* the store, the store holds no record of that image's file.  Stated for
\* the plain case: no handler is in flight and no other image of the list
\* has a file of that name.
C26_DeleteDestroysRecord ==
  [][ \A i \in 1 .. Len(appImages) :
        ( /\ \A c \in CallIds : handlers[c] = NoHandler
          /\ \A j \in 1 .. Len(appImages) :
                j # i => appImages[j].file.name # appImages[i].file.name
          /\ OnDelete(appImages[i].id) )
          => \A r \in images' : r.fileName # appImages[i].file.name ]_vars

\* C23: the Save button writes the preset id selected at that moment and
\* that preset's format ('png' for 'none') to the store record of the edited
\* image: when the saveImage of onImageUpdate returns, the record under the
\* returned id has that lastPreset and lastFormat, and the files the record
\* of that name held before the write are the files it holds after it.
\* Stated for a write during which no other handler is in flight.
C23_SaveWritesPresetBack ==
  [][ \A c \in CallIds :
        ( /\ \A o \in CallIds \ { c } : handlers[o] = NoHandler
          /\ ImageUpdateSaved(c) )
          => \E r \in images' :
                /\ r.id = last'.val
                /\ r.lastPreset = handlers[c].lastPreset
                /\ r.lastFormat = SaveFormat(handlers[c].lastPreset)
                /\ \A old \in images :
                      old.fileName = r.fileName
                        => /\ SameBytes(old.originalFile, r.originalFile)
                           /\ SameBytes(old.processedFile, r.processedFile) ]_vars


\* C30: once the camera preview is closed and no getUserMedia request is
\* pending, every stream initCamera has obtained has had its tracks stopped
C30_StreamsReleased ==
  (~ showCameraPreview /\ requests = 0)
    => \A i \in 1 .. Len(streams) : streams[i] # "live"

====
